---- MODULE Spec2Model ----
(***************************************************************************)
(* State-machine model of the news chatbot backend: the startup sequence   *)
(* of server.js (connectRedis, initializeServices, listen), the batched    *)
(* ingestion of services.js (createArticleEmbeddings), the retrieval and   *)
(* answer pipeline (retrieveRelevantArticles, generateAnswer) and the      *)
(* session functions over Redis (getChatHistory, clearSession).            *)
(*                                                                         *)
(* services.js and routes.js are the listings embedded in src/README.md;   *)
(* line numbers in the comments refer to that file unless stated.          *)
(*                                                                         *)
(* Every `await` on an external service (Redis, Qdrant, Jina, Gemini) is   *)
(* an interleaving point; the external service either answers or fails,    *)
(* chosen nondeterministically.                                            *)
(***************************************************************************)
EXTENDS Integers, Sequences, FiniteSets, TLC

(***************************************************************************)
(* Program constants (src/src/config.js CONFIG, and literals of the code). *)
(***************************************************************************)
SESSION_TTL == 3600
TOP_K_RESULTS == 20
MAX_ARTICLES == 100
BATCH_SIZE == 10
VECTOR_SIZE == 768
HISTORY_WINDOW == 6
\* text.slice(0, 8000) before a text is sent to the provider
MAX_TEXT_LENGTH == 8000
\* the output size of CONFIG.JINA_MODEL, jina-embeddings-v2-base-en
JINA_DIMENSION == 768
\* createSimpleEmbedding: word.length > 2, slice(0, 100), 768 components
MIN_WORD_LENGTH == 2
VOCABULARY_SIZE == 100
EMBEDDING_SIZE == 768

(***************************************************************************)
(* Bounds of the model.                                                    *)
(***************************************************************************)
\* largest article collection an ingestion run is checked with
MaxArticles == 21
\* size of the article collection fetched at startup of the full system
FetchN == 2
\* longest session history (in Turns) a call may produce
MaxTurns == 10
\* the same, where two generateAnswer calls may run at once
MaxTurnsRace == 4
\* seconds of wall-clock time that pass in one Tick
TickSeconds == 1800
\* longest stored history (Turns) of a session where two sessions are served
MaxTurnsRoutes == 2
\* most articles a feed or a site holds
MaxFound == 25

Sessions == {"s1", "s2"}
CallSeq == <<"c1", "c2">>
Calls == { CallSeq[n] : n \in 1..Len(CallSeq) }
Queries == {"news", "tech tech"}
Answers == {"a1", "a2"}

Min(a, b) == IF a < b THEN a ELSE b

(***************************************************************************)
(* Texts.  A string of the program is named by a TLA+ string; Characters   *)
(* gives its characters, one string of length 1 each.                      *)
(***************************************************************************)
LowerCase ==
  <<"a", "b", "c", "d", "e", "f", "g", "h", "i", "j", "k", "l", "m",
    "n", "o", "p", "q", "r", "s", "t", "u", "v", "w", "x", "y", "z">>

UpperCase ==
  <<"A", "B", "C", "D", "E", "F", "G", "H", "I", "J", "K", "L", "M",
    "N", "O", "P", "Q", "R", "S", "T", "U", "V", "W", "X", "Y", "Z">>

Digits == <<"0", "1", "2", "3", "4", "5", "6", "7", "8", "9">>

InSeq(seq, x) == \E k \in 1..Len(seq) : seq[k] = x

IndexOf(seq, x) == CHOOSE k \in 1..Len(seq) : seq[k] = x

\* the text of the 101 words w00 w01 ... w99 x00, followed by a second x00:
\* one distinct word more than the vocabulary holds, the last one twice
ManyWords ==
  LET word(k) == IF k < 10 * Len(Digits)
                   THEN <<"w", Digits[(k \div 10) + 1], Digits[(k % 10) + 1], " ">>
                   ELSE <<"x", "0", "0", " ">>
  IN [p \in 1..(4 * (10 * Len(Digits) + 2)) |-> word((p - 1) \div 4)[((p - 1) % 4) + 1]]

\* a text longer than text.slice(0, 8000) keeps: the word alpha, blanks up
\* to the 8000th character, then the word omega twice
PaddedWords ==
  LET head == <<"a", "l", "p", "h", "a">>
      tail == <<"o", "m", "e", "g", "a", " ", "o", "m", "e", "g", "a">>
  IN [p \in 1..(MAX_TEXT_LENGTH + Len(tail)) |->
        IF p <= Len(head) THEN head[p]
        ELSE IF p <= MAX_TEXT_LENGTH THEN " "
        ELSE tail[p - MAX_TEXT_LENGTH]]

TextTable ==
  <<[text |-> "", chars |-> <<>>],
    [text |-> "news", chars |-> <<"n", "e", "w", "s">>],
    [text |-> "tech tech", chars |-> <<"t", "e", "c", "h", " ", "t", "e", "c", "h">>],
    [text |-> "Cats and dogs",
     chars |-> <<"C", "a", "t", "s", " ", "a", "n", "d", " ", "d", "o", "g", "s">>],
    [text |-> "the cat sat on the mat",
     chars |-> <<"t", "h", "e", " ", "c", "a", "t", " ", "s", "a", "t", " ", "o", "n", " ",
                 "t", "h", "e", " ", "m", "a", "t">>],
    [text |-> "2024 was big, 100 won",
     chars |-> <<"2", "0", "2", "4", " ", "w", "a", "s", " ", "b", "i", "g", ",", " ",
                 "1", "0", "0", " ", "w", "o", "n">>],
    [text |-> "a to be", chars |-> <<"a", " ", "t", "o", " ", "b", "e">>],
    [text |-> "cat cat dog dog dog 007",
     chars |-> <<"c", "a", "t", " ", "c", "a", "t", " ", "d", "o", "g", " ", "d", "o", "g", " ",
                 "d", "o", "g", " ", "0", "0", "7">>],
    [text |-> "The the THE",
     chars |-> <<"T", "h", "e", " ", "t", "h", "e", " ", "T", "H", "E">>],
    [text |-> "snake_case x_1",
     chars |-> <<"s", "n", "a", "k", "e", "_", "c", "a", "s", "e", " ", "x", "_", "1">>],
    [text |-> "   ", chars |-> <<" ", " ", " ">>],
    [text |-> "constructor",
     chars |-> <<"c", "o", "n", "s", "t", "r", "u", "c", "t", "o", "r">>],
    [text |-> "__proto__ pollution",
     chars |-> <<"_", "_", "p", "r", "o", "t", "o", "_", "_", " ",
                 "p", "o", "l", "l", "u", "t", "i", "o", "n">>],
    [text |-> "w00 w01 ... w99 x00 x00", chars |-> ManyWords],
    [text |-> "alpha ... omega omega", chars |-> PaddedWords],
    [text |-> "alpha ...", chars |-> SubSeq(PaddedWords, 1, MAX_TEXT_LENGTH)]>>

Texts == { TextTable[k].text : k \in 1..Len(TextTable) }

Characters(text) == TextTable[CHOOSE k \in 1..Len(TextTable) : TextTable[k].text = text].chars

(***************************************************************************)
(* Articles.  fetchNewsArticles concatenates the feeds' articles and keeps *)
(* the first MAX_ARTICLES; an article is a record of seven fields.         *)
(***************************************************************************)
\* The text of the article at position p of the feeds; title, description
\* and the other fields are opaque.
FeedTexts ==
  <<"Cats and dogs", "the cat sat on the mat", "news", "constructor",
    "__proto__ pollution", "2024 was big, 100 won", "tech tech", "The the THE",
    "snake_case x_1", "a to be",
    "", "Cats and dogs", "cat cat dog dog dog 007", "w00 w01 ... w99 x00 x00",
    "the cat sat on the mat", "2024 was big, 100 won", "news", "tech tech",
    "a to be", "alpha ... omega omega">>

FeedText(p) == FeedTexts[(p % Len(FeedTexts)) + 1]

MkArticle(p) ==
  [id |-> <<"feed", p>>, title |-> <<"title", p>>,
   description |-> <<"description", p>>, link |-> <<"link", p>>,
   pubDate |-> <<"pubDate", p>>, fullText |-> FeedText(p),
   source |-> "RSS Feed"]

\* allArticles.slice(0, CONFIG.MAX_ARTICLES)
SliceArticles(all) == SubSeq(all, 1, Min(Len(all), MAX_ARTICLES))

(***************************************************************************)
(* JavaScript values and plain objects, as far as createSimpleEmbedding    *)
(* uses them.  A value is a number [num] or [jina], a string [str], the    *)
(* function Object [fn], the object Object.prototype [obj] or undefined.   *)
(***************************************************************************)
Undefined == [undefined |-> TRUE]

Num(n) == [num |-> n]

\* typeof v === "number"; [jina] is a number of the provider's reply
IsNumber(v) == DOMAIN v \in {{"num"}, {"jina"}}

\* a || b
OrElse(a, b) ==
  IF a = Undefined \/ a = Num(0) \/ a = [str |-> ""] THEN b ELSE a

\* a + 1: addition of numbers, else concatenation of the operands' strings
PlusOne(a) ==
  IF IsNumber(a) THEN Num(a.num + 1)
  ELSE IF "str" \in DOMAIN a THEN [str |-> a.str \o "1"]
  ELSE IF "fn" \in DOMAIN a THEN [str |-> "function Object() { [native code] }" \o "1"]
  ELSE IF "obj" \in DOMAIN a THEN [str |-> "[object Object]" \o "1"]
  ELSE [str |-> "undefined" \o "1"]

\* the properties a plain object inherits from Object.prototype under a
\* lower-case name made of word characters
Inherited(key) ==
  IF key = Characters("constructor") THEN [fn |-> "Object"]
  ELSE IF key = SubSeq(Characters("__proto__ pollution"), 1, 9) THEN [obj |-> "Object.prototype"]
  ELSE Undefined

\* an object is the sequence of its own properties in creation order
HasOwn(o, key) == \E k \in 1..Len(o) : o[k].key = key

\* o[key]
GetProperty(o, key) ==
  IF HasOwn(o, key) THEN o[CHOOSE k \in 1..Len(o) : o[k].key = key].value
  ELSE Inherited(key)

\* o[key] = value; the setter of __proto__ ignores a value that is neither
\* an object nor null
SetProperty(o, key, value) ==
  IF HasOwn(o, key)
    THEN [k \in 1..Len(o) |-> IF o[k].key = key THEN [key |-> key, value |-> value] ELSE o[k]]
  ELSE IF key = SubSeq(Characters("__proto__ pollution"), 1, 9) /\ "obj" \notin DOMAIN value
    THEN o
  ELSE Append(o, [key |-> key, value |-> value])

AllDigits(key) == \A k \in 1..Len(key) : InSeq(Digits, key[k])

\* a < b for digit strings of one length
RECURSIVE DigitsLess(_, _)
DigitsLess(a, b) ==
  IF a = <<>> THEN FALSE
  ELSE IF a[1] # b[1] THEN IndexOf(Digits, a[1]) < IndexOf(Digits, b[1])
  ELSE DigitsLess(Tail(a), Tail(b))

\* numeric order of canonical digit strings
NumericLess(a, b) == Len(a) < Len(b) \/ (Len(a) = Len(b) /\ DigitsLess(a, b))

\* 2^32 - 2, the largest array index
MaxArrayIndex == <<"4", "2", "9", "4", "9", "6", "7", "2", "9", "4">>

\* a property name that is a canonical array index
IsArrayIndex(key) ==
  /\ key # <<>>
  /\ AllDigits(key)
  /\ Len(key) = 1 \/ key[1] # "0"
  /\ ~NumericLess(MaxArrayIndex, key)

\* the k-th (k >= 1) of a set of array-index names in ascending numeric order
KthIndexKey(keys, k) ==
  CHOOSE x \in keys : Cardinality({ y \in keys : NumericLess(y, x) }) = k - 1

\* Object.entries(o): array-index names in ascending numeric order, then the
\* other names in creation order
ObjectEntries(o) ==
  LET indexKeys == { o[k].key : k \in { j \in 1..Len(o) : IsArrayIndex(o[j].key) } }
      others == SelectSeq(o, LAMBDA e : ~IsArrayIndex(e.key))
      byIndex == [k \in 1..Cardinality(indexKeys) |->
                    LET key == KthIndexKey(indexKeys, k)
                    IN [key |-> key, value |-> GetProperty(o, key)]]
  IN byIndex \o others

(***************************************************************************)
(* createSimpleEmbedding: the local bag-of-words embedding.                *)
(***************************************************************************)
\* String.prototype.toLowerCase, on the letters A-Z
ToLowerCase(chars) ==
  [k \in 1..Len(chars) |->
     IF InSeq(UpperCase, chars[k]) THEN LowerCase[IndexOf(UpperCase, chars[k])] ELSE chars[k]]

\* \w
IsWordChar(ch) ==
  InSeq(LowerCase, ch) \/ InSeq(UpperCase, ch) \/ InSeq(Digits, ch) \/ ch = "_"

\* the k-th smallest (k >= 1) of a set of positions
KthPosition(positions, k) ==
  CHOOSE x \in positions : Cardinality({ y \in positions : y < x }) = k - 1

\* chars.match(/\b\w+\b/g) || []: the maximal runs of word characters
MatchWords(chars) ==
  LET n == Len(chars)
      isWord == [k \in 1..n |-> IsWordChar(chars[k])]
      starts == { k \in 1..n : isWord[k] /\ (k = 1 \/ ~isWord[k - 1]) }
      ends == { k \in 1..n : isWord[k] /\ (k = n \/ ~isWord[k + 1]) }
  IN [k \in 1..Cardinality(starts) |->
        SubSeq(chars, KthPosition(starts, k), KthPosition(ends, k))]

\* if (word.length > 2) wordFreq[word] = (wordFreq[word] || 0) + 1
CountWord(wordFreq, word) ==
  IF Len(word) > MIN_WORD_LENGTH
    THEN SetProperty(wordFreq, word, PlusOne(OrElse(GetProperty(wordFreq, word), Num(0))))
    ELSE wordFreq

RECURSIVE CountWords(_, _, _, _)
\* words.forEach(...) over words[from..to], in order; the range is halved
\* and the first half is evaluated before the second is entered, to keep
\* the evaluation shallow
CountWords(words, from, to, wordFreq) ==
  IF from > to THEN wordFreq
  ELSE IF from = to THEN CountWord(wordFreq, words[from])
  ELSE LET mid == (from + to) \div 2
           firstHalf == CountWords(words, from, mid, wordFreq)
       IN IF firstHalf = <<>>
            THEN CountWords(words, mid + 1, to, <<>>)
            ELSE CountWords(words, mid + 1, to, firstHalf)

\* (a, b) => b[1] - a[1]; a comparator result of NaN counts as 0
CompareFreq(a, b) ==
  IF IsNumber(a.value) /\ IsNumber(b.value) THEN b.value.num - a.value.num ELSE 0

\* one step of a stable insertion sort: e goes after the last element that
\* does not sort after it
InsertSorted(sorted, e) ==
  LET before == { j \in 1..Len(sorted) : CompareFreq(sorted[j], e) <= 0 }
      p == IF before = {} THEN 0 ELSE CHOOSE j \in before : \A m \in before : m <= j
  IN SubSeq(sorted, 1, p) \o <<e>> \o SubSeq(sorted, p + 1, Len(sorted))

RECURSIVE InsertAll(_, _, _, _)
\* the elements entries[from..to] inserted in order, the range halved and
\* the first half evaluated before the second is entered
InsertAll(entries, from, to, sorted) ==
  IF from > to THEN sorted
  ELSE IF from = to THEN InsertSorted(sorted, entries[from])
  ELSE LET mid == (from + to) \div 2
           firstHalf == InsertAll(entries, from, mid, sorted)
       IN IF firstHalf = <<>>
            THEN InsertAll(entries, mid + 1, to, <<>>)
            ELSE InsertAll(entries, mid + 1, to, firstHalf)

\* entries.sort((a, b) => b[1] - a[1]); Array.prototype.sort is stable
SortEntries(entries) == InsertAll(entries, 1, Len(entries), <<>>)

\* array.slice(0, n)
SliceFirst(array, n) == SubSeq(array, 1, Min(Len(array), n))

\* the object wordFreq after the forEach
WordFreq(text) ==
  LET words == MatchWords(ToLowerCase(Characters(text)))
  IN CountWords(words, 1, Len(words), <<>>)

\* topWords.map(([word]) => word)
Vocabulary(text) ==
  LET topWords == SliceFirst(SortEntries(ObjectEntries(WordFreq(text))), VOCABULARY_SIZE)
  IN [k \in 1..Len(topWords) |-> topWords[k].key]

\* A vector is kept as its leading components and the number of zero
\* components that follow them.
Dimension(vector) == Len(vector.values) + vector.zeros

\* faulty variant of PadZeros: `if` for `while`, one zero is pushed
PadZerosOnce(vector, size) ==
  IF Dimension(vector) < size THEN [vector EXCEPT !.zeros = @ + 1] ELSE vector

\* while (embedding.length < size) embedding.push(0)
PadZeros(vector, size) ==
  IF Dimension(vector) < size
    THEN [vector EXCEPT !.zeros = @ + (size - Dimension(vector))]
    ELSE vector

\* embedding.slice(0, size)
SliceVector(vector, size) ==
  [values |-> SliceFirst(vector.values, size),
   zeros |-> Min(vector.zeros, size - Len(SliceFirst(vector.values, size)))]

createSimpleEmbedding(text) ==
  LET wordFreq == WordFreq(text)
      vocab == Vocabulary(text)
      embedding == [values |-> [k \in 1..Len(vocab) |->
                                  OrElse(GetProperty(wordFreq, vocab[k]), Num(0))],
                    zeros |-> 0]
  IN SliceVector(PadZeros(embedding, EMBEDDING_SIZE), EMBEDDING_SIZE)

\* createSimpleEmbedding of every text of the model, computed once
SimpleEmbedding == [text \in Texts |-> createSimpleEmbedding(text)]

(***************************************************************************)
(* Embeddings.  getJinaBatchEmbeddings returns one vector per text, either *)
(* the provider's or, when the provider call throws, the local fallback's. *)
(***************************************************************************)
\* item.embedding of the provider's reply for one text: JINA_DIMENSION
\* numbers that depend on the text sent, text.slice(0, 8000); the model
\* takes a first component named by that text and zeros after it
JinaEmbedding(text) ==
  [values |-> <<[jina |-> SliceFirst(Characters(text), MAX_TEXT_LENGTH)]>>,
   zeros |-> JINA_DIMENSION - 1]

\* the two outcomes of one getJinaBatchEmbeddings(texts) call
getJinaBatchEmbeddings(texts) ==
  { [j \in 1..Len(texts) |-> JinaEmbedding(texts[j])],
    [j \in 1..Len(texts) |-> SimpleEmbedding[texts[j]]] }

\* getJinaEmbedding(text): embeddings[0] of a one-text batch
getJinaEmbedding(text) == { e[1] : e \in getJinaBatchEmbeddings(<<text>>) }

(***************************************************************************)
(* Ingestion: createArticleEmbeddings.                                     *)
(***************************************************************************)
\* Math.ceil(newsArticles.length / batchSize)
TotalBatches(articles) == (Len(articles) + BATCH_SIZE - 1) \div BATCH_SIZE

\* start = i * batchSize
BatchStart(i) == i * BATCH_SIZE

\* end = Math.min(start + batchSize, newsArticles.length)
BatchEnd(i, articles) == Min(BatchStart(i) + BATCH_SIZE, Len(articles))

\* newsArticles.slice(start, end)
Batch(i, articles) == SubSeq(articles, BatchStart(i) + 1, BatchEnd(i, articles))

\* faulty variant of PointId: ids restart at 0 in every batch
PointIdPerBatch(start, idx) == idx

\* id: start + idx
PointId(start, idx) == start + idx

\* faulty variant of MakePoints: the vectors are taken from the end
MakePointsReversed(batch, start, embeddings) ==
  [j \in 1..Len(batch) |->
     [id |-> PointId(start, j - 1),
      vector |-> embeddings[Len(batch) - j + 1],
      payload |-> [articleId |-> batch[j].id, title |-> batch[j].title,
                   description |-> batch[j].description,
                   link |-> batch[j].link, pubDate |-> batch[j].pubDate,
                   fullText |-> batch[j].fullText,
                   source |-> batch[j].source]]]

\* batch.map((article, idx) => ({ id, vector: embeddings[idx], payload }))
MakePoints(batch, start, embeddings) ==
  [j \in 1..Len(batch) |->
     [id |-> PointId(start, j - 1),
      vector |-> embeddings[j],
      payload |-> [articleId |-> batch[j].id, title |-> batch[j].title,
                   description |-> batch[j].description,
                   link |-> batch[j].link, pubDate |-> batch[j].pubDate,
                   fullText |-> batch[j].fullText,
                   source |-> batch[j].source]]]

\* faulty variant of Upsert: the points of the batch replace the collection
UpsertReplacing(index, pts) ==
  [id \in { pts[j].id : j \in 1..Len(pts) } |->
     LET j == CHOOSE k \in 1..Len(pts) : pts[k].id = id
     IN [vector |-> pts[j].vector, payload |-> pts[j].payload]]

\* Qdrant upsert: a point replaces the stored point of the same id
Upsert(index, pts) ==
  LET ids == { pts[j].id : j \in 1..Len(pts) }
  IN [id \in (DOMAIN index) \cup ids |->
        IF id \in ids
          THEN LET j == CHOOSE k \in 1..Len(pts) :
                          pts[k].id = id /\ \A m \in (k + 1)..Len(pts) : pts[m].id # id
               IN [vector |-> pts[j].vector, payload |-> pts[j].payload]
          ELSE index[id]]

EmptyIndex == [id \in {} |-> TRUE]

\* the collection as Qdrant knows it: missing, or created with a vector size
NoCollection == [exists |-> FALSE, size |-> 0]

\* createCollection(name, { vectors: { size, distance: "Cosine" } })
CreateCollection(size) == [exists |-> TRUE, size |-> size]

\* Qdrant takes a vector of the collection's size whose components are
\* numbers, and refuses a request that carries any other vector
ValidVector(coll, vector) ==
  /\ coll.exists
  /\ Dimension(vector) = coll.size
  /\ \A k \in 1..Len(vector.values) : IsNumber(vector.values[k])

AcceptsPoints(coll, pts) == \A j \in 1..Len(pts) : ValidVector(coll, pts[j].vector)

(***************************************************************************)
(* Retrieval: retrieveRelevantArticles.                                    *)
(***************************************************************************)
\* the vectors getJinaEmbedding can give for the query "news": the
\* provider's, and the fallback's for one word that occurs once
NewsVectors ==
  { JinaEmbedding("news"), [values |-> <<Num(1)>>, zeros |-> EMBEDDING_SIZE - 1] }

\* Similarity score of a stored point for a query vector, in thousandths.
\* Qdrant computes it; the model fixes one total order for the vectors of
\* the query "news" and another one for every other query vector.
Score(qvec, id, pvec) == IF qvec \in NewsVectors THEN 900 - 10 * id ELSE 100 + 10 * id

RECURSIVE RankedIds(_, _, _)
\* ids of the stored points by descending score
RankedIds(index, qvec, ids) ==
  IF ids = {} THEN <<>>
  ELSE LET best == CHOOSE a \in ids :
                     \A b \in ids : Score(qvec, a, index[a].vector) >= Score(qvec, b, index[b].vector)
       IN <<best>> \o RankedIds(index, qvec, ids \ {best})

\* qdrantClient.search(collection, {vector, limit, with_payload: true})
Search(index, qvec, limit) ==
  LET ranked == RankedIds(index, qvec, DOMAIN index)
  IN [j \in 1..Min(limit, Len(ranked)) |->
        [id |-> ranked[j], score |-> Score(qvec, ranked[j], index[ranked[j]].vector),
         payload |-> index[ranked[j]].payload]]

\* faulty variant of MapResults: the matches are mapped last to first
MapResultsReversed(searchResult) ==
  [j \in 1..Len(searchResult) |->
     LET r == searchResult[Len(searchResult) - j + 1]
     IN [id |-> r.payload.articleId, title |-> r.payload.title,
         description |-> r.payload.description, link |-> r.payload.link,
         pubDate |-> r.payload.pubDate, fullText |-> r.payload.fullText,
         source |-> r.payload.source, score |-> r.score]]

\* searchResult.map((result) => ({ id: result.payload.articleId, ..., score }))
MapResults(searchResult) ==
  [j \in 1..Len(searchResult) |->
     [id |-> searchResult[j].payload.articleId,
      title |-> searchResult[j].payload.title,
      description |-> searchResult[j].payload.description,
      link |-> searchResult[j].payload.link,
      pubDate |-> searchResult[j].payload.pubDate,
      fullText |-> searchResult[j].payload.fullText,
      source |-> searchResult[j].payload.source,
      score |-> searchResult[j].score]]

(***************************************************************************)
(* Prompt construction and Turns: generateAnswer.                          *)
(***************************************************************************)
\* (score * 100).toFixed(1): tenths of a percent are the thousandths
Relevance(score) == <<score \div 10, ".", score % 10>>

\* the numbered source blocks, joined in result order
Context(articles) ==
  [j \in 1..Len(articles) |->
     [n |-> j, source |-> articles[j].source, relevance |-> Relevance(articles[j].score),
      title |-> articles[j].title, content |-> articles[j].description,
      url |-> articles[j].link, published |-> articles[j].pubDate]]

\* faulty variant of SliceLast: history.slice(0, 6)
SliceLastFromStart(h, n) == SubSeq(h, 1, Min(Len(h), n))

\* history.slice(-6)
SliceLast(h, n) == IF Len(h) <= n THEN h ELSE SubSeq(h, Len(h) - n + 1, Len(h))

\* `${h.role === "user" ? "User" : "Assistant"}: ${h.content}`
RenderTurn(t) == <<IF t.role = "user" THEN "User" ELSE "Assistant", t.content>>

ConversationContext(history) ==
  IF Len(history) > 0
    THEN <<"Previous conversation:">> \o
         [j \in 1..Len(SliceLast(history, HISTORY_WINDOW)) |->
            RenderTurn(SliceLast(history, HISTORY_WINDOW)[j])]
    ELSE <<>>

Prompt(articles, history, query) ==
  [context |-> Context(articles),
   conversationContext |-> ConversationContext(history),
   question |-> query]

\* The timestamp field (Date.now()) of a Turn is left out of the model.
UserTurn(query) == [role |-> "user", content |-> query]

\* faulty variant of TurnSources: only the five best sources are stored
TurnSourcesTopFive(articles) ==
  [j \in 1..Min(Len(articles), 5) |->
     [title |-> articles[j].title, link |-> articles[j].link,
      source |-> articles[j].source, score |-> articles[j].score]]

\* relevantArticles.map((a) => ({ title, link, source, score }))
TurnSources(articles) ==
  [j \in 1..Len(articles) |->
     [title |-> articles[j].title, link |-> articles[j].link,
      source |-> articles[j].source, score |-> articles[j].score]]

AssistantTurn(answer, articles) ==
  [role |-> "assistant", content |-> answer, sources |-> TurnSources(articles)]

\* relevantArticles.map((a) => ({ title, link, pubDate, source, relevance }))
ReturnedSources(articles) ==
  [j \in 1..Len(articles) |->
     [title |-> articles[j].title, link |-> articles[j].link,
      pubDate |-> articles[j].pubDate, source |-> articles[j].source,
      relevance |-> Relevance(articles[j].score) \o <<"%">>]]

\* faulty variant of PushTurns: the answer is pushed before the question
PushTurnsAnswerFirst(history, query, answer, articles) ==
  history \o <<AssistantTurn(answer, articles), UserTurn(query)>>

\* faulty variant of PushTurns: only the prompt window is kept
PushTurnsWindowed(history, query, answer, articles) ==
  SliceLast(history, HISTORY_WINDOW) \o <<UserTurn(query), AssistantTurn(answer, articles)>>

\* the two history.push calls
PushTurns(history, query, answer, articles) ==
  history \o <<UserTurn(query), AssistantTurn(answer, articles)>>

(***************************************************************************)
(* Redis: string values under string keys, each with a time to live.       *)
(***************************************************************************)
\* JSON.stringify(history): the text holds one encoded object per Turn
EncodeTurn(t) ==
  IF t.role = "user" THEN <<"role", t.role, "content", t.content>>
  ELSE <<"role", t.role, "content", t.content, "sources", t.sources>>

JSONstringify(history) == [json |-> [j \in 1..Len(history) |-> EncodeTurn(history[j])]]

\* faulty variant of DecodeTurn: the sources of a Turn are not read back
DecodeTurnPlain(e) == [role |-> e[2], content |-> e[4]]

DecodeTurn(e) ==
  IF Len(e) = 4 THEN [role |-> e[2], content |-> e[4]]
  ELSE [role |-> e[2], content |-> e[4], sources |-> e[6]]

JSONparse(text) == [j \in 1..Len(text.json) |-> DecodeTurn(text.json[j])]

\* reply of GET on a missing key
Nil == [nil |-> TRUE]

Absent == [val |-> Nil, ttl |-> -2]

\* faulty variant of SessionKey: one key for every session
SessionKeyShared(s) == <<"session:", "all">>

\* `session:${sessionId}`
SessionKey(s) == <<"session:", s>>

Keys == { SessionKey(s) : s \in Sessions }

RedisGet(db, key) == db[key].val

\* faulty variant of RedisSetEX: SET key val KEEPTTL on an existing key
RedisSetKeepTTL(db, key, val, seconds) ==
  [db EXCEPT ![key] = [val |-> val, ttl |-> IF db[key].val = Nil THEN seconds ELSE db[key].ttl]]

\* SET key val EX seconds
RedisSetEX(db, key, val, seconds) == [db EXCEPT ![key] = [val |-> val, ttl |-> seconds]]

\* DEL key: the store without the key
RedisDel(db, key) == [db EXCEPT ![key] = Absent]

\* faulty variant of RedisDelCount: the reply is 1 for a missing key too
RedisDelCountOne(db, key) == 1

\* DEL key: the number of keys removed
RedisDelCount(db, key) == IF db[key].val = Nil THEN 0 ELSE 1

\* the store after dt seconds: a key whose time to live has run out is gone
RedisElapse(db, dt) ==
  [k \in DOMAIN db |->
     IF db[k].val = Nil THEN Absent
     ELSE IF db[k].ttl - dt < 0 THEN Absent
     ELSE [val |-> db[k].val, ttl |-> db[k].ttl - dt]]

\* historyJson ? JSON.parse(historyJson) : []
ParseHistory(historyJson) == IF historyJson # Nil THEN JSONparse(historyJson) ELSE <<>>

VARIABLES
  srv,           \* position of startServer (server.js)
  exitCode,      \* process.exit status, -1 while the process runs
  redis,         \* the connection of redisClient: status, retries, delay
  startupError,  \* the startup step whose failure startServer caught
  collection,    \* the Qdrant collection: whether it exists, its vector size
  points,        \* the Qdrant collection: point id -> [vector, payload]
  newsArticles,  \* the in-memory article collection (services.js)
  fetch,         \* fetchNewsArticles: loop position and locals
  ing,           \* createArticleEmbeddings: loop position and locals
  inflight,      \* requests issued to Jina / Qdrant and not yet answered
  ingLog,        \* history of the run: calls issued and acknowledged
  kv,            \* Redis: key -> [val, ttl]
  call,          \* the requests being served: position and locals of each
  generated,     \* the (query, answer) pairs the language model has returned
  gh             \* per session: history variables (see GhInit)

vars == <<srv, exitCode, startupError, redis, collection, points, newsArticles, fetch, ing, inflight, ingLog,
          kv, call, generated, gh>>

srvVars == <<srv, exitCode, startupError, redis>>

ingVars == <<collection, points, newsArticles, fetch, ing, inflight, ingLog>>

chatVars == <<kv, call, generated, gh>>

(***************************************************************************)
(* Initial state: the process has started, nothing is connected.           *)
(***************************************************************************)
\* createClient(...): no connection yet; retries: the failed attempts since
\* the connection was lost, delay: the last delay reconnectStrategy
\* returned, quit: how the call redisClient.quit() of a signal handler ended
\* (history variable)
RedisClosed == [status |-> "closed", retries |-> 0, delay |-> 0, quit |-> "none"]

\* redisClient.connect() has resolved
RedisReady == [status |-> "ready", retries |-> 0, delay |-> 0, quit |-> "none"]

IngIdle == [pc |-> "idle", i |-> 0, result |-> -1]

\* let allArticles = [], before the first source; failed: the sources that
\* threw so far (history variable)
FetchInit == [k |-> 0, allArticles |-> <<>>, failed |-> {}]

NoInflight == [embed |-> {}, upsert |-> {}]

CallIdle ==
  [op |-> "none", pc |-> "idle", query |-> "", session |-> "",
   articles |-> <<>>, history |-> <<>>, prompt |-> <<>>, answer |-> "",
   outcome |-> "none", result |-> <<>>,
   \* history variables of the call
   failedAt |-> "none", historyRead |-> <<>>, overlap |-> FALSE,
   rivalWrote |-> <<>>, ttlBefore |-> -2, stale |-> FALSE, cleared |-> FALSE]

\* sinceWrite: seconds since the last successful write, -1 before the first
\* seq: successful writes since the session was last empty, each made with
\*      the stored history in hand; -1 once a write was made otherwise
GhInit == [sinceWrite |-> -1, seq |-> 0]

Init ==
  /\ srv = "connectRedis"
  /\ exitCode = -1
  /\ startupError = "none"
  /\ redis = RedisClosed
  /\ collection \in {NoCollection, CreateCollection(VECTOR_SIZE)}
  /\ points = EmptyIndex
  /\ newsArticles = <<>>
  /\ fetch = FetchInit
  /\ ing = IngIdle
  /\ inflight = NoInflight
  /\ ingLog = <<>>
  /\ kv = [k \in Keys |-> Absent]
  /\ call = [c \in Calls |-> CallIdle]
  /\ generated = {}
  /\ gh = [s \in Sessions |-> GhInit]

(***************************************************************************)
(* Startup: startServer (src/server.js) and initializeServices.            *)
(***************************************************************************)
\* faulty variant of ExitOnFailure: the catch block logs and the server is
\* started all the same
ExitOnFailureLogged(step) ==
  /\ srv' = "listen"
  /\ exitCode' = exitCode
  /\ startupError' = step
  /\ redis' = redis

\* the catch block of startServer: process.exit(1)
ExitOnFailure(step) ==
  /\ srv' = "exited"
  /\ exitCode' = 1
  /\ startupError' = step
  /\ redis' = redis

\* await connectRedis()
ConnectRedis ==
  /\ srv = "connectRedis"
  /\ \/ /\ srv' = "initializeQdrant"
        /\ redis' = RedisReady
        /\ UNCHANGED <<exitCode, startupError>>
     \/ ExitOnFailure("connectRedis")
  /\ UNCHANGED <<ingVars, chatVars>>

\* await initializeQdrant(): getCollections, then createCollection if missing
initializeQdrant ==
  /\ srv = "initializeQdrant"
  /\ \/ /\ collection' = IF collection.exists THEN collection
                                                  ELSE CreateCollection(VECTOR_SIZE)
        /\ srv' = "fetchNewsArticles"
        /\ UNCHANGED <<exitCode, startupError, redis>>
     \/ \* getCollections or createCollection throws: rethrown
        /\ ExitOnFailure("initializeQdrant")
        /\ UNCHANGED collection
  /\ UNCHANGED <<points, newsArticles, fetch, ing, inflight, ingLog, chatVars>>

\* await fetchNewsArticles(): n articles come back from the feeds and sites
fetchNewsArticles(n) ==
  /\ srv = "fetchNewsArticles"
  /\ newsArticles' = SliceArticles([p \in 1..n |-> MkArticle(p - 1)])
  /\ srv' = "createArticleEmbeddings"
  /\ ing' = [pc |-> "loop", i |-> 0, result |-> -1]
  /\ UNCHANGED <<exitCode, startupError, redis, collection, points, fetch, inflight, ingLog, chatVars>>

(***************************************************************************)
(* fetchNewsArticles source by source: one action per await of its loops.  *)
(***************************************************************************)
\* CONFIG.NEWS_FEEDS, then CONFIG.SCRAPE_SITES; limit: items.slice(0, 20)
\* of fetchRSSFeed, `if (index >= 15) return` of scrapeWebsite
Sources ==
  <<[name |-> "nyt/World", kind |-> "RSS Feed", limit |-> 20],
    [name |-> "nyt/Technology", kind |-> "RSS Feed", limit |-> 20],
    [name |-> "nyt/Business", kind |-> "RSS Feed", limit |-> 20],
    [name |-> "bbc/world", kind |-> "RSS Feed", limit |-> 20],
    [name |-> "bbc/technology", kind |-> "RSS Feed", limit |-> 20],
    [name |-> "The Guardian", kind |-> "The Guardian", limit |-> 15],
    [name |-> "TechCrunch", kind |-> "TechCrunch", limit |-> 15],
    [name |-> "Reuters", kind |-> "Reuters", limit |-> 15]>>

\* the articles fetchRSSFeed or scrapeWebsite returns for source k when the
\* source holds `found` of them
SourceArticles(k, found) ==
  [j \in 1..Min(found, Sources[k].limit) |->
     [MkArticle(j - 1) EXCEPT !.id = <<Sources[k].name, j - 1>>, !.source = Sources[k].kind]]

\* faulty variant of ArticlesAfterSource: the articles of each source are
\* added to the collection as they come
ArticlesAfterSourceAdded(all) == SliceArticles(all)

\* the collection while the loops run: allArticles is a local
ArticlesAfterSource(all) == newsArticles

\* await fetchRSSFeed(feedUrl) / await scrapeWebsite(site), then
\* allArticles = allArticles.concat(articles); a source that throws is
\* caught in its function, which returns []
FNA_Source(found) ==
  /\ srv = "fetchNewsArticles"
  /\ fetch.k < Len(Sources)
  /\ \/ fetch' = [fetch EXCEPT !.k = @ + 1,
                                !.allArticles = @ \o SourceArticles(fetch.k + 1, found)]
     \/ fetch' = [fetch EXCEPT !.k = @ + 1, !.failed = @ \cup {fetch.k + 1}]
  /\ newsArticles' = ArticlesAfterSource(fetch'.allArticles)
  /\ UNCHANGED <<srvVars, collection, points, ing, inflight, ingLog, chatVars>>

\* newsArticles = allArticles.slice(0, CONFIG.MAX_ARTICLES); return
FNA_End ==
  /\ srv = "fetchNewsArticles"
  /\ fetch.k = Len(Sources)
  /\ newsArticles' = SliceArticles(fetch.allArticles)
  /\ srv' = "createArticleEmbeddings"
  /\ ing' = [pc |-> "loop", i |-> 0, result |-> -1]
  /\ UNCHANGED <<exitCode, startupError, redis, collection, points, fetch, inflight, ingLog, chatVars>>

\* getArticles()
getArticles == newsArticles

(***************************************************************************)
(* createArticleEmbeddings: one action per await of the loop body.         *)
(***************************************************************************)
\* faulty variant of AfterUpsertIssued: the upsert is not awaited
AfterUpsertIssuedNoAwait == "delay"

\* await qdrantClient.upsert(...): the loop stops until the answer
AfterUpsertIssued == "upserting"

\* loop test passed: texts built, getJinaBatchEmbeddings(texts) called
CAE_BeginBatch ==
  /\ srv = "createArticleEmbeddings"
  /\ ing.pc = "loop"
  /\ ing.i < TotalBatches(newsArticles)
  /\ ing' = [ing EXCEPT !.pc = "embedding"]
  /\ inflight' = [inflight EXCEPT !.embed = @ \cup {ing.i}]
  /\ ingLog' = Append(ingLog, [ev |-> "embed", chunk |-> ing.i,
                               size |-> Len(Batch(ing.i, newsArticles))])
  /\ UNCHANGED <<srvVars, collection, points, newsArticles, fetch, chatVars>>

\* the embeddings arrive: points built, qdrantClient.upsert called
CAE_Embedded ==
  /\ srv = "createArticleEmbeddings"
  /\ ing.pc = "embedding"
  /\ LET batch == Batch(ing.i, newsArticles)
         texts == [j \in 1..Len(batch) |-> batch[j].fullText]
     IN \E embeddings \in getJinaBatchEmbeddings(texts) :
          LET pts == MakePoints(batch, BatchStart(ing.i), embeddings)
          IN /\ inflight' = [embed |-> inflight.embed \ {ing.i},
                             upsert |-> inflight.upsert \cup {[chunk |-> ing.i, pts |-> pts]}]
             /\ ingLog' = Append(ingLog, [ev |-> "upsert", chunk |-> ing.i,
                                          ids |-> [j \in 1..Len(pts) |-> pts[j].id],
                                          providerFailed |->
                                            (embeddings = [j \in 1..Len(texts) |->
                                                             SimpleEmbedding[texts[j]]])])
  /\ ing' = [ing EXCEPT !.pc = AfterUpsertIssued]
  /\ UNCHANGED <<srvVars, collection, points, newsArticles, fetch, chatVars>>

\* Qdrant acknowledges an upsert (wait: true): the points are stored
CAE_UpsertAck(r) ==
  /\ r \in inflight.upsert
  /\ AcceptsPoints(collection, r.pts)
  /\ points' = Upsert(points, r.pts)
  /\ inflight' = [inflight EXCEPT !.upsert = @ \ {r}]
  /\ ingLog' = Append(ingLog, [ev |-> "ack", chunk |-> r.chunk])
  /\ IF ing.pc = "upserting" /\ ing.i = r.chunk
       THEN \* if (i < totalBatches - 1) await the 500 ms delay, else i++
            ing' = IF ing.i < TotalBatches(newsArticles) - 1
                     THEN [ing EXCEPT !.pc = "delay"]
                     ELSE [ing EXCEPT !.pc = "loop", !.i = @ + 1]
       ELSE UNCHANGED ing
  /\ UNCHANGED <<srvVars, collection, newsArticles, fetch, chatVars>>

\* faulty variant of CAE_UpsertFail: the catch logs and the loop goes on
CAE_UpsertFailContinues(r) ==
  /\ r \in inflight.upsert
  /\ inflight' = [inflight EXCEPT !.upsert = @ \ {r}]
  /\ ingLog' = Append(ingLog, [ev |-> "upsertFailed", chunk |-> r.chunk,
                               refused |-> ~AcceptsPoints(collection, r.pts)])
  /\ ing' = IF ing.pc = "upserting" /\ ing.i = r.chunk
              THEN [ing EXCEPT !.pc = "loop", !.i = @ + 1]
              ELSE ing
  /\ UNCHANGED <<srvVars, collection, points, newsArticles, fetch, chatVars>>

\* an upsert fails, Qdrant being out of reach or refusing the points: the
\* batch's catch rethrows, startup halts
CAE_UpsertFail(r) ==
  /\ r \in inflight.upsert
  /\ inflight' = [inflight EXCEPT !.upsert = @ \ {r}]
  /\ ingLog' = Append(ingLog, [ev |-> "upsertFailed", chunk |-> r.chunk,
                               refused |-> ~AcceptsPoints(collection, r.pts)])
  /\ IF ing.pc = "upserting" /\ ing.i = r.chunk
       THEN ing' = [ing EXCEPT !.pc = "failed"] /\ ExitOnFailure("createArticleEmbeddings")
       ELSE UNCHANGED <<ing, srvVars>>
  /\ UNCHANGED <<collection, points, newsArticles, fetch, chatVars>>

\* the 500 ms delay between batches is over: i++
CAE_DelayElapsed ==
  /\ srv = "createArticleEmbeddings"
  /\ ing.pc = "delay"
  /\ ing' = [ing EXCEPT !.pc = "loop", !.i = @ + 1]
  /\ UNCHANGED <<srvVars, collection, points, newsArticles, fetch, inflight, ingLog, chatVars>>

\* loop test failed: return newsArticles.length; initializeServices returns
CAE_Done ==
  /\ srv = "createArticleEmbeddings"
  /\ ing.pc = "loop"
  /\ ing.i >= TotalBatches(newsArticles)
  /\ ing' = [ing EXCEPT !.pc = "done", !.result = Len(newsArticles)]
  /\ srv' = "listen"
  /\ UNCHANGED <<exitCode, startupError, redis, collection, points, newsArticles, fetch, inflight, ingLog, chatVars>>

\* app.listen(CONFIG.PORT)
Listen ==
  /\ srv = "listen"
  /\ srv' = "listening"
  /\ UNCHANGED <<exitCode, startupError, redis, ingVars, chatVars>>

\* the steps of a run over a collection that fits one batch
createArticleEmbeddingsOneBatch ==
  \/ CAE_BeginBatch
  \/ CAE_Embedded
  \/ \E r \in inflight.upsert : CAE_UpsertAck(r)
  \/ \E r \in inflight.upsert : CAE_UpsertFail(r)
  \/ CAE_Done

createArticleEmbeddings ==
  \/ createArticleEmbeddingsOneBatch
  \/ CAE_DelayElapsed

(***************************************************************************)
(* The Redis connection (src/config.js) and the signal handlers            *)
(* (src/server.js).                                                        *)
(***************************************************************************)
\* faulty variant of reconnectStrategy: no limit on the retries
reconnectStrategyUnbounded(retries) == [delay |-> retries * 100]

\* socket.reconnectStrategy of createClient: an Error, or the delay in ms
reconnectStrategy(retries) ==
  IF retries > 10 THEN [error |-> "Redis connection failed"]
  ELSE [delay |-> retries * 100]

\* the client after its attempt number retries + 1 to connect again has
\* failed: it asks reconnectStrategy(retries), and stops for good on an Error
AfterStrategy(retries) ==
  LET next == reconnectStrategy(retries)
  IN IF "error" \in DOMAIN next
       THEN [redis EXCEPT !.status = "failed"]
       ELSE [redis EXCEPT !.status = "reconnecting", !.retries = retries + 1,
                          !.delay = next.delay]

\* the connection is lost: the client starts to connect again
ConnectionLost ==
  /\ exitCode = -1
  /\ redis.status = "ready"
  /\ redis' = [redis EXCEPT !.status = "reconnecting", !.retries = 0, !.delay = 0]
  /\ UNCHANGED <<srv, exitCode, startupError, ingVars, chatVars>>

\* one attempt to connect again, made after the delay: it succeeds or fails
ReconnectAttempt ==
  /\ exitCode = -1
  /\ redis.status = "reconnecting"
  /\ \/ redis' = [redis EXCEPT !.status = "ready", !.retries = 0, !.delay = 0]
     \/ redis' = AfterStrategy(redis.retries)
  /\ UNCHANGED <<srv, exitCode, startupError, ingVars, chatVars>>

\* the identifiers server.js binds: its imports and top-level declarations
ServerScope ==
  {"express", "cors", "dotenv", "connectRedis", "CONFIG", "initializeServices", "router",
   "requiredEnvVars", "missingEnvVars", "app", "startServer"}

\* how `await redisClient.quit()` in a handler of server.js can end: with a
\* ReferenceError when the identifier is not bound there
QuitOutcomes ==
  IF "redisClient" \notin ServerScope THEN {"ReferenceError"}
  ELSE IF redis.status = "closed" THEN {"rejected"}
  ELSE {"resolved", "rejected"}

\* process.on(signal, ...): try { await redisClient.quit(); process.exit(0) }
\* catch { process.exit(1) }
Shutdown(signal) ==
  /\ exitCode = -1
  /\ \E outcome \in QuitOutcomes :
       /\ redis' = [redis EXCEPT !.quit = outcome,
                                 !.status = IF outcome = "resolved" THEN "closed" ELSE @]
       /\ exitCode' = IF outcome = "resolved" THEN 0 ELSE 1
  /\ srv' = "exited"
  /\ UNCHANGED <<startupError, ingVars, chatVars>>

(***************************************************************************)
(* Serving.  A request occupies one slot of `call` from the moment the     *)
(* route calls the service function until the response is sent.            *)
(***************************************************************************)
StoredHistory(s) == ParseHistory(RedisGet(kv, SessionKey(s)))

\* generateAnswer calls on session s that have not finished
InFlight(s) ==
  { c \in Calls : call[c].op = "answer" /\ call[c].session = s /\ call[c].pc # "done" }

\* the longest history of session s that is stored or held by a call
LongestHistory(s) ==
  LET lens == {Len(StoredHistory(s))} \cup { Len(call[d].history) : d \in InFlight(s) }
  IN CHOOSE n \in lens : \A m \in lens : m <= n

\* a request takes the first free slot
FirstFree(calls) ==
  LET free == { n \in 1..Len(CallSeq) : CallSeq[n] \in calls /\ call[CallSeq[n]].pc = "idle" }
  IN IF free = {} THEN "" ELSE CallSeq[CHOOSE n \in free : \A m \in free : n <= m]

Throw(c, where) ==
  [call[c] EXCEPT !.pc = "done", !.outcome = "threw", !.failedAt = where]

\* router.post("/chat") with a valid body: generateAnswer(message, sessionId)
GA_Call(c, q, s, maxTurns) ==
  /\ srv = "listening"
  /\ LongestHistory(s) + 2 * (Cardinality(InFlight(s)) + 1) <= maxTurns
  /\ call' = [call EXCEPT ![c] = [CallIdle EXCEPT !.op = "answer", !.pc = "retrieve",
                                                  !.query = q, !.session = s]]
  /\ UNCHANGED <<srvVars, ingVars, kv, generated, gh>>

\* faulty variant of GA_RetrieveFail: the catch returns no articles and
\* generateAnswer goes on
GA_RetrieveFailReturnsNone(c) ==
  call' = [call EXCEPT ![c].failedAt = "retrieve", ![c].articles = <<>>, ![c].pc = "read"]

\* qdrantClient.search throws, Qdrant being out of reach or refusing the
\* query vector: retrieveRelevantArticles logs and rethrows, and so does
\* generateAnswer
GA_RetrieveFail(c) == call' = [call EXCEPT ![c] = Throw(c, "retrieve")]

\* await retrieveRelevantArticles(query): embed the query, search, map
GA_Retrieve(c) ==
  /\ call[c].op = "answer"
  /\ call[c].pc = "retrieve"
  /\ \/ \E qvec \in getJinaEmbedding(call[c].query) :
          /\ ValidVector(collection, qvec)
          /\ call' = [call EXCEPT ![c].articles = MapResults(Search(points, qvec, TOP_K_RESULTS)),
                                  ![c].pc = "read"]
     \/ GA_RetrieveFail(c)
  /\ UNCHANGED <<srvVars, ingVars, kv, generated, gh>>

\* await redisClient.get(`session:${sessionId}`), then the prompt is built
\* and geminiModel.generateContent(prompt) is called
GA_ReadSession(c) ==
  /\ call[c].op = "answer"
  /\ call[c].pc = "read"
  /\ \/ LET history == ParseHistory(RedisGet(kv, SessionKey(call[c].session)))
        IN call' = [call EXCEPT ![c].history = history,
                                ![c].historyRead = history,
                                ![c].prompt = Prompt(call[c].articles, history, call[c].query),
                                ![c].pc = "generate"]
     \/ call' = [call EXCEPT ![c] = Throw(c, "read")]
  /\ UNCHANGED <<srvVars, ingVars, kv, generated, gh>>

\* faulty variant of GA_GenerateFail: the Turns are stored with no answer
GA_GenerateFailStoresTurn(c) ==
  /\ call' = [call EXCEPT ![c] = Throw(c, "llm")]
  /\ kv' = RedisSetEX(kv, SessionKey(call[c].session),
                      JSONstringify(PushTurns(call[c].history, call[c].query, "", call[c].articles)),
                      SESSION_TTL)
  /\ UNCHANGED generated

\* generateContent throws: logged and rethrown
GA_GenerateFail(c) ==
  /\ call' = [call EXCEPT ![c] = Throw(c, "llm")]
  /\ UNCHANGED <<kv, generated>>

\* the model answers: both Turns are pushed and redisClient.set is called
GA_Generate(c) ==
  /\ call[c].op = "answer"
  /\ call[c].pc = "generate"
  /\ \/ \E answer \in Answers :
          /\ call' = [call EXCEPT ![c].answer = answer,
                                  ![c].history = PushTurns(call[c].history, call[c].query,
                                                           answer, call[c].articles),
                                  ![c].pc = "write"]
          /\ generated' = generated \cup {<<call[c].query, answer>>}
          /\ UNCHANGED kv
     \/ GA_GenerateFail(c)
  /\ UNCHANGED <<srvVars, ingVars, gh>>

\* the calls on the same session that have read the history and not yet
\* written it when c writes
Overtaken(c) ==
  { d \in Calls \ {c} : /\ call[d].op = "answer"
                        /\ call[d].session = call[c].session
                        /\ call[d].pc \in {"generate", "write"} }

\* variant of HistoryToStore: the Turns are appended to the stored history
HistoryToStoreMerged(c) ==
  StoredHistory(call[c].session) \o SliceLast(call[c].history, 2)

\* JSON.stringify(history): the array read at the start of the call, with
\* the two pushed Turns
HistoryToStore(c) == call[c].history

\* variant of GA_WriteFail: the failed write is only logged
GA_WriteFailSwallowed(c) ==
  /\ call' = [call EXCEPT ![c].pc = "done", ![c].outcome = "returned",
                          ![c].failedAt = "write",
                          ![c].result = [answer |-> call[c].answer,
                                         sources |-> ReturnedSources(call[c].articles)]]
  /\ UNCHANGED <<kv, gh>>

\* redisClient.set throws: the function's catch logs and rethrows
GA_WriteFail(c) ==
  /\ call' = [call EXCEPT ![c] = Throw(c, "write")]
  /\ UNCHANGED <<kv, gh>>

\* await redisClient.set(key, JSON.stringify(history), { EX: SESSION_TTL }),
\* then return { answer, sources }
GA_WriteSession(c) ==
  /\ call[c].op = "answer"
  /\ call[c].pc = "write"
  /\ \/ LET s == call[c].session
            key == SessionKey(s)
        IN /\ kv' = RedisSetEX(kv, key, JSONstringify(HistoryToStore(c)), SESSION_TTL)
           /\ call' = [d \in Calls |->
                 IF d = c
                   THEN [call[c] EXCEPT !.pc = "done", !.outcome = "returned",
                                        !.result = [answer |-> call[c].answer,
                                                    sources |-> ReturnedSources(call[c].articles)],
                                        !.ttlBefore = kv[key].ttl]
                 ELSE IF d \in Overtaken(c)
                   THEN [call[d] EXCEPT !.overlap = TRUE, !.rivalWrote = call[c].history]
                 ELSE call[d]]
           /\ gh' = [gh EXCEPT ![s] = [sinceWrite |-> 0,
                                       seq |-> IF @.seq >= 0 /\ StoredHistory(s) = call[c].historyRead
                                                 THEN @.seq + 1 ELSE -1]]
     \/ GA_WriteFail(c)
  /\ UNCHANGED <<srvVars, ingVars, generated>>

generateAnswer(c) ==
  \/ GA_Retrieve(c)
  \/ GA_ReadSession(c)
  \/ GA_Generate(c)
  \/ GA_WriteSession(c)

\* variant of GetHistoryFail: the failure is rethrown
GetHistoryFailThrows(c, s) ==
  [CallIdle EXCEPT !.op = "history", !.session = s, !.pc = "done",
                   !.outcome = "threw", !.failedAt = "store"]

\* redisClient.get throws in getChatHistory: logged, return []
GetHistoryFail(c, s) ==
  [CallIdle EXCEPT !.op = "history", !.session = s, !.pc = "done",
                   !.outcome = "returned", !.result = <<>>, !.failedAt = "store"]

\* faulty variant of KvAfterGet: the read renews the time to live
KvAfterGetRefreshing(s) ==
  IF RedisGet(kv, SessionKey(s)) = Nil THEN kv
  ELSE RedisSetEX(kv, SessionKey(s), RedisGet(kv, SessionKey(s)), SESSION_TTL)

\* the store after the GET of getChatHistory
KvAfterGet(s) == kv

\* router.get("/history/:sessionId"): getChatHistory(sessionId)
getChatHistory(c, s) ==
  /\ srv = "listening"
  /\ \/ /\ call' = [call EXCEPT ![c] =
                      [CallIdle EXCEPT !.op = "history", !.session = s, !.pc = "done",
                                       !.outcome = "returned",
                                       !.result = ParseHistory(RedisGet(kv, SessionKey(s))),
                                       !.stale = (gh[s].sinceWrite > SESSION_TTL)]]
        /\ kv' = KvAfterGet(s)
        /\ UNCHANGED gh
     \/ /\ call' = [call EXCEPT ![c] = GetHistoryFail(c, s)]
        /\ UNCHANGED <<kv, gh>>
  /\ UNCHANGED <<srvVars, ingVars, generated>>

\* the generateAnswer calls on session s that have read the history and
\* not yet written it
HasRead(s) ==
  { d \in Calls : /\ call[d].op = "answer"
                  /\ call[d].session = s
                  /\ call[d].pc \in {"generate", "write"} }

\* router.delete("/sessions/:sessionId"): clearSession(sessionId); cleared
\* (history variable) marks the calls whose read the deletion came after
clearSession(c, s) ==
  /\ srv = "listening"
  /\ \/ /\ call' = [d \in Calls |->
                 IF d = c
                   THEN [CallIdle EXCEPT !.op = "clear", !.session = s, !.pc = "done",
                                         !.outcome = "returned",
                                         !.result = (RedisDelCount(kv, SessionKey(s)) > 0)]
                 ELSE IF d \in HasRead(s) /\ RedisDelCount(kv, SessionKey(s)) > 0
                   THEN [call[d] EXCEPT !.cleared = TRUE]
                 ELSE call[d]]
        /\ kv' = RedisDel(kv, SessionKey(s))
        /\ gh' = [gh EXCEPT ![s].seq = 0]
     \/ \* redisClient.del throws: logged and rethrown
        /\ call' = [call EXCEPT ![c] =
                      [CallIdle EXCEPT !.op = "clear", !.session = s, !.pc = "done",
                                       !.outcome = "threw", !.failedAt = "store"]]
        /\ UNCHANGED <<kv, gh>>
  /\ UNCHANGED <<srvVars, ingVars, generated>>

\* variant of CountFail: the failure is rethrown
CountFailThrows == [outcome |-> "threw", result |-> 0]

\* getCollection throws in getEmbeddingsCount: return 0
CountFail == [outcome |-> "returned", result |-> 0]

\* router.get("/health"), router.get("/stats"): getEmbeddingsCount()
getEmbeddingsCount(c) ==
  /\ srv = "listening"
  /\ \/ \* info.points_count || 0
        call' = [call EXCEPT ![c] =
                   [CallIdle EXCEPT !.op = "count", !.pc = "done", !.outcome = "returned",
                                    !.result = Cardinality(DOMAIN points)]]
     \/ call' = [call EXCEPT ![c] =
                   [CallIdle EXCEPT !.op = "count", !.pc = "done", !.failedAt = "index",
                                    !.outcome = CountFail.outcome,
                                    !.result = CountFail.result]]
  /\ UNCHANGED <<srvVars, ingVars, kv, generated, gh>>

(***************************************************************************)
(* The route layer (routes.js) in front of the service functions.  A field *)
(* of a request body is a JavaScript value: undefined when it is missing,  *)
(* a number [num], or a string [str].                                      *)
(***************************************************************************)
\* !v
Falsy(v) == v = Undefined \/ v = Num(0) \/ v = [str |-> ""]

\* typeof v === "string"
IsString(v) == DOMAIN v = {"str"}

\* the white space of the texts
WhiteSpace == {" "}

\* chars.trim()
Trim(chars) ==
  LET kept == { k \in 1..Len(chars) : chars[k] \notin WhiteSpace }
  IN IF kept = {} THEN <<>>
     ELSE SubSeq(chars, CHOOSE k \in kept : \A m \in kept : k <= m,
                        CHOOSE k \in kept : \A m \in kept : m <= k)

\* faulty variant of ChatStatus: the message is not trimmed before its
\* length is tested
ChatStatusUntrimmed(message, sessionId) ==
  IF Falsy(message) \/ ~IsString(message) THEN 400
  ELSE IF Falsy(sessionId) THEN 400
  ELSE IF Len(Characters(message.str)) = 0 THEN 400
  ELSE IF ~IsString(sessionId) THEN 500
  ELSE 200

\* the validation of router.post("/chat"), in the order of the code: the
\* status of the response it sends, 200 when generateAnswer is reached;
\* sessionId.slice(0, 8) throws on a sessionId that is no string, and the
\* catch of the route answers 500
ChatStatus(message, sessionId) ==
  IF Falsy(message) \/ ~IsString(message) THEN 400
  ELSE IF Falsy(sessionId) THEN 400
  ELSE IF Len(Trim(Characters(message.str))) = 0 THEN 400
  ELSE IF ~IsString(sessionId) THEN 500
  ELSE 200

\* a response of the route layer that no service function was called for
RouteResponse(op, s, status) ==
  [CallIdle EXCEPT !.op = op, !.session = s, !.pc = "done", !.outcome = "responded",
                   !.result = [status |-> status]]

\* router.post("/chat") with the body { message, sessionId }
PostChat(c, message, sessionId, maxTurns) ==
  IF ChatStatus(message, sessionId) = 200
    THEN GA_Call(c, message.str, sessionId.str, maxTurns)
    ELSE /\ srv = "listening"
         /\ call' = [call EXCEPT ![c] =
                       RouteResponse("chat", "", ChatStatus(message, sessionId))]
         /\ UNCHANGED <<srvVars, ingVars, kv, generated, gh>>

\* faulty variant of KvAfterCreate: the new session is stored with an empty
\* history
KvAfterCreateStored(s) == RedisSetEX(kv, SessionKey(s), JSONstringify(<<>>), SESSION_TTL)

\* the store after router.post("/sessions"): the route calls no store
KvAfterCreate(s) == kv

\* router.post("/sessions"): uuidv4() names a session, 201 with the id
createSession(c, s) ==
  /\ srv = "listening"
  /\ call' = [call EXCEPT ![c] = RouteResponse("create", s, 201)]
  /\ kv' = KvAfterCreate(s)
  /\ UNCHANGED <<srvVars, ingVars, generated, gh>>

\* the route sends its response: the slot is free again
Respond(c) ==
  /\ call[c].pc = "done"
  /\ call' = [call EXCEPT ![c] = CallIdle]
  /\ UNCHANGED <<srvVars, ingVars, kv, generated, gh>>

\* TickSeconds pass: Redis counts every key's time to live down
Tick ==
  /\ srv = "listening"
  /\ \E s \in Sessions : gh[s].sinceWrite >= 0 /\ gh[s].sinceWrite <= SESSION_TTL
  /\ kv' = RedisElapse(kv, TickSeconds)
  /\ gh' = [s \in Sessions |->
              [gh[s] EXCEPT !.sinceWrite = IF @ < 0 THEN @
                                           ELSE Min(@ + TickSeconds, SESSION_TTL + TickSeconds),
                            !.seq = IF RedisElapse(kv, TickSeconds)[SessionKey(s)].val = Nil
                                      THEN 0 ELSE @]]
  /\ UNCHANGED <<srvVars, ingVars, call, generated>>

(***************************************************************************)
(* Specifications.                                                         *)
(***************************************************************************)
Startup(sizes) ==
  \/ ConnectRedis
  \/ initializeQdrant
  \/ \E n \in sizes : fetchNewsArticles(n)
  \/ createArticleEmbeddings
  \/ Listen

\* startup with FetchN articles: they fit one batch (FetchN <= BATCH_SIZE),
\* so the delay between batches never runs
StartupSmall ==
  \/ ConnectRedis
  \/ initializeQdrant
  \/ fetchNewsArticles(FetchN)
  \/ createArticleEmbeddingsOneBatch
  \/ Listen

\* requests: generateAnswer in the slots answerCalls, the others in calls
Requests(answerCalls, calls, sessions, queries, maxTurns) ==
  \/ \E c \in answerCalls, q \in queries, s \in sessions :
        c = FirstFree(answerCalls) /\ GA_Call(c, q, s, maxTurns)
  \/ \E c \in answerCalls : generateAnswer(c)
  \/ \E c \in calls, s \in sessions : c = FirstFree(calls) /\ getChatHistory(c, s)
  \/ \E c \in calls, s \in sessions : c = FirstFree(calls) /\ clearSession(c, s)
  \/ \E c \in calls : c = FirstFree(calls) /\ getEmbeddingsCount(c)
  \/ \E c \in calls : Respond(c)

\* the whole program, started with a small article collection, serving
\* concurrent requests on one session
Next == StartupSmall \/ Requests(Calls, Calls, {"s1"}, Queries, MaxTurnsRace)

Spec == Init /\ [][Next]_vars

\* the whole program with time passing: one generateAnswer at a time, next
\* to history reads and deletions, over long histories
NextTimed == StartupSmall \/ Requests({"c1"}, Calls, {"s1"}, {"news"}, MaxTurns) \/ Tick

SpecTimed == Init /\ [][NextTimed]_vars

\* the startup sequence alone, over article collections of every size
NextIngest == Startup(0..MaxArticles)

SpecIngest == Init /\ [][NextIngest]_vars

\* startup over a small and a large article collection, then one request at
\* a time, the query being empty, plain, or one the fallback fails on
NextRetrieve ==
  Startup({FetchN, MaxArticles})
    \/ Requests({"c1"}, {"c1"}, {"s1"}, {"", "news", "constructor"}, 2)

SpecRetrieve == Init /\ [][NextRetrieve]_vars

\* the bodies of the chat requests: message and sessionId missing, a
\* number, an empty string, blanks, a question, the name of a session
ChatMessages == {Undefined, Num(7), [str |-> ""], [str |-> "   "], [str |-> "news"]}

ChatSessionIds == {Undefined, Num(7), [str |-> ""]} \cup { [str |-> s] : s \in Sessions }

\* the routes on sessions, any body, two sessions, two requests at a time
Routes(maxTurns) ==
  \/ \E c \in Calls, message \in ChatMessages, sessionId \in ChatSessionIds :
        c = FirstFree(Calls) /\ PostChat(c, message, sessionId, maxTurns)
  \/ \E c \in Calls : generateAnswer(c)
  \/ \E c \in Calls, s \in Sessions : c = FirstFree(Calls) /\ createSession(c, s)
  \/ \E c \in Calls, s \in Sessions : c = FirstFree(Calls) /\ getChatHistory(c, s)
  \/ \E c \in Calls, s \in Sessions : c = FirstFree(Calls) /\ clearSession(c, s)
  \/ \E c \in Calls : Respond(c)

NextRoutes == StartupSmall \/ Routes(MaxTurnsRoutes)

SpecRoutes == Init /\ [][NextRoutes]_vars

\* the start up to the end of fetchNewsArticles, source by source: a source
\* holds one article or more than its limit, or fails
NextFetch ==
  \/ ConnectRedis
  \/ initializeQdrant
  \/ \E found \in {1, MaxFound} : FNA_Source(found)
  \/ FNA_End

SpecFetch == Init /\ [][NextFetch]_vars

\* the collection an earlier run of the program over MaxArticles articles
\* of an earlier day has left in Qdrant
StalePoints ==
  LET earlier == [p \in 1..MaxArticles |-> [MkArticle(p - 1) EXCEPT !.id = <<"earlier", p - 1>>]]
  IN Upsert(EmptyIndex,
            MakePoints(earlier, 0, [p \in 1..MaxArticles |-> JinaEmbedding(earlier[p].fullText)]))

\* the process starts while Qdrant holds the collection of the earlier run
InitReingest ==
  /\ srv = "connectRedis"
  /\ exitCode = -1
  /\ startupError = "none"
  /\ redis = RedisClosed
  /\ collection = CreateCollection(VECTOR_SIZE)
  /\ points = StalePoints
  /\ newsArticles = <<>>
  /\ fetch = FetchInit
  /\ ing = IngIdle
  /\ inflight = NoInflight
  /\ ingLog = <<>>
  /\ kv = [k \in Keys |-> Absent]
  /\ call = [c \in Calls |-> CallIdle]
  /\ generated = {}
  /\ gh = [s \in Sessions |-> GhInit]

\* a run over no article, a few, or more than one batch of them, fewer than
\* the earlier run, then one request at a time
NextReingest ==
  Startup({0, FetchN, BATCH_SIZE + FetchN})
    \/ Requests({"c1"}, {"c1"}, {"s1"}, Queries, 2)

SpecReingest == InitReingest /\ [][NextReingest]_vars

\* the start of the program with the connection lost and regained and the
\* signals that end the process
NextLifecycle ==
  \/ StartupSmall
  \/ ConnectionLost
  \/ ReconnectAttempt
  \/ \E signal \in {"SIGTERM", "SIGINT"} : Shutdown(signal)

SpecLifecycle == Init /\ [][NextLifecycle]_vars

\* two sessions with time passing: two requests at a time, on the same
\* session or on different ones
NextSessions ==
  StartupSmall \/ Requests(Calls, Calls, Sessions, {"news"}, MaxTurnsRoutes) \/ Tick

SpecSessions == Init /\ [][NextSessions]_vars

(***************************************************************************)
(* Properties.                                                             *)
(***************************************************************************)
\* the two Turns a call appends for its query and answer
OwnTurns(c) ==
  <<[role |-> "user", content |-> call[c].query],
    [role |-> "assistant", content |-> call[c].answer,
     sources |-> [j \in 1..Len(call[c].articles) |->
                    [title |-> call[c].articles[j].title, link |-> call[c].articles[j].link,
                     source |-> call[c].articles[j].source, score |-> call[c].articles[j].score]]]>>

\* the step in which generateAnswer call c fails before its session write
FailsBeforeWrite(c) ==
  /\ call[c].op = "answer"
  /\ call[c].pc \in {"retrieve", "read", "generate"}
  /\ call'[c].outcome = "threw"

\* the step in which the session write of generateAnswer call c succeeds
WriteSucceeds(c) ==
  /\ call[c].op = "answer"
  /\ call[c].pc = "write"
  /\ call'[c].outcome = "returned"

\* every assistant Turn of history h follows a user Turn and carries an
\* answer the language model returned for that user Turn's query
AnswersGenerated(h) ==
  \A j \in 1..Len(h) :
    h[j].role = "assistant" =>
      /\ j > 1
      /\ h[j - 1].role = "user"
      /\ <<h[j - 1].content, h[j].content>> \in generated

\* C1: a generateAnswer call that fails in retrieval, in the session read or
\* in the language-model call ends in an error and leaves the value and the
\* expiry of every stored session as they were; and every assistant Turn of
\* every stored history carries an answer the language model returned for
\* the user Turn just before it.
C1_FailureLeavesSession ==
  /\ [][\A c \in Calls : FailsBeforeWrite(c) => kv' = kv]_vars
  /\ [](\A s \in Sessions : AnswersGenerated(StoredHistory(s)))

\* a call failed in the language model while its session holds a history
C1_Witness ==
  \E c \in Calls :
    /\ call[c].op = "answer"
    /\ call[c].outcome = "threw"
    /\ call[c].failedAt = "llm"
    /\ call[c].historyRead # <<>>
    /\ StoredHistory(call[c].session) = call[c].historyRead

C3_LaterSetWins ==
  [][\A d \in Calls :
       (WriteSucceeds(d) /\ call[d].overlap) =>
         LET stored == ParseHistory(RedisGet(kv', SessionKey(call[d].session)))
             rivalRead == SubSeq(call[d].rivalWrote, 1, Len(call[d].rivalWrote) - 2)
         IN /\ stored = call[d].historyRead \o OwnTurns(d)
            /\ Len(call[d].rivalWrote) >= 2
            /\ rivalRead = call[d].historyRead =>
                 /\ Len(stored) = Len(call[d].historyRead) + 2
                 /\ Len(stored) = Len(call[d].rivalWrote)
                 /\ stored # call[d].rivalWrote \o OwnTurns(d)]_vars

\* both calls have returned; the later one read the same history as the
\* earlier one, and the store holds 2 Turns more than that history
C3_Witness ==
  \E c, d \in Calls :
    /\ c # d
    /\ call[c].op = "answer" /\ call[c].outcome = "returned"
    /\ call[d].op = "answer" /\ call[d].outcome = "returned"
    /\ call[c].session = call[d].session
    /\ call[d].overlap
    /\ call[d].rivalWrote = call[c].history
    /\ call[c].historyRead = call[d].historyRead
    /\ Len(StoredHistory(call[d].session)) = Len(call[d].historyRead) + 2

\* h alternates user, assistant, starting with user
Alternates(h) ==
  \A j \in 1..Len(h) : h[j].role = IF j % 2 = 1 THEN "user" ELSE "assistant"

\* C4: a successful generateAnswer write made while the store still holds
\* the history the call read leaves the stored history equal to that history
\* followed by one user Turn with the query and one assistant Turn with the
\* answer, whatever the length of the history; so after n such writes on an
\* empty session the history has 2n Turns alternating user, assistant.
C4_AppendsOnePair ==
  /\ [][\A c \in Calls :
          (WriteSucceeds(c) /\ StoredHistory(call[c].session) = call[c].historyRead) =>
            LET stored == ParseHistory(RedisGet(kv', SessionKey(call[c].session)))
            IN /\ stored = StoredHistory(call[c].session) \o OwnTurns(c)
               /\ Len(stored) = Len(call[c].historyRead) + 2]_vars
  /\ [](\A s \in Sessions :
          gh[s].seq >= 0 =>
            /\ Len(StoredHistory(s)) = 2 * gh[s].seq
            /\ Alternates(StoredHistory(s)))

\* a fifth sequential call has extended a history longer than the window
C4_Witness ==
  \E c \in Calls :
    /\ call[c].op = "answer"
    /\ call[c].outcome = "returned"
    /\ Len(call[c].historyRead) > HISTORY_WINDOW
    /\ StoredHistory(call[c].session) = call[c].historyRead \o OwnTurns(c)
    /\ gh[call[c].session].seq = 5

\* C5: right after every successful generateAnswer write the session's
\* remaining lifetime is SESSION_TTL, whatever it was before.
C5_WriteResetsExpiry ==
  [][\A c \in Calls :
       WriteSucceeds(c) => kv'[SessionKey(call[c].session)].ttl = SESSION_TTL]_vars

\* a call has rewritten a session that had used up part of its lifetime
C5_Witness ==
  \E c \in Calls :
    /\ call[c].op = "answer"
    /\ call[c].outcome = "returned"
    /\ call[c].ttlBefore >= 0
    /\ call[c].ttlBefore < SESSION_TTL
    /\ kv[SessionKey(call[c].session)].ttl = SESSION_TTL

\* C6: a getChatHistory made more than SESSION_TTL seconds after the last
\* write of the session returns the empty sequence; getChatHistory leaves
\* the store, expiry included, as it was; and a stored session disappears
\* only by the passage of time or by a clearSession, never by another step.
C6_UnwrittenSessionExpires ==
  /\ [](\A c \in Calls :
          (call[c].op = "history" /\ call[c].stale) => call[c].result = <<>>)
  /\ [][\A c \in Calls :
          (call[c].pc = "idle" /\ call'[c].op = "history") => kv' = kv]_vars
  /\ [][\A s \in Sessions :
          (kv[SessionKey(s)].val # Nil /\ kv'[SessionKey(s)].val = Nil) =>
            \/ gh'[s].sinceWrite > gh[s].sinceWrite
            \/ \E c \in Calls : call[c].pc = "idle" /\ call'[c].op = "clear"]_vars

\* one read found the history while the session was live, a second read
\* after the time to live found nothing
C6_Witness ==
  \E c, d \in Calls :
    /\ call[c].op = "history" /\ ~call[c].stale /\ call[c].result # <<>>
    /\ call[d].op = "history" /\ call[d].stale /\ call[d].result = <<>>
    /\ call[c].session = call[d].session
    /\ gh[call[d].session].sinceWrite > SESSION_TTL

\* C7 as stated: a store failure during getChatHistory or clearSession
\* reaches the caller as a failure.
C7_StoreFailureIsSurfaced ==
  \A c \in Calls :
    (call[c].op \in {"history", "clear"} /\ call[c].failedAt = "store")
      => call[c].outcome = "threw"

\* C7 amended: a store failure during clearSession reaches the caller as a
\* failure; a store failure during getChatHistory is logged and the function
\* returns the empty history, a normal result.
C7_OnlyDeleteFailureIsSurfaced ==
  \A c \in Calls :
    /\ (call[c].op = "clear" /\ call[c].failedAt = "store") => call[c].outcome = "threw"
    /\ (call[c].op = "history" /\ call[c].failedAt = "store") =>
         (call[c].outcome = "returned" /\ call[c].result = <<>>)

\* a failed history read answered with the empty history next to a failed
\* deletion that threw, the session holding a history all along
C7_Witness ==
  \E c, d \in Calls :
    /\ call[c].op = "history" /\ call[c].failedAt = "store" /\ call[c].outcome = "returned"
    /\ call[d].op = "clear" /\ call[d].failedAt = "store" /\ call[d].outcome = "threw"
    /\ call[c].session = call[d].session
    /\ StoredHistory(call[c].session) # <<>>

\* a startup step that calls the Vector Index failed and the process went on
StartupSwallowed ==
  \/ ing.pc = "failed" /\ srv # "exited"
  \/ startupError \in {"initializeQdrant", "createArticleEmbeddings"} /\ exitCode # 1

\* C8 as stated: every failure of a Vector Index call and of the
\* language-model call reaches the caller of the function as a failure.
C8_IndexAndModelFailuresPropagate ==
  /\ ~StartupSwallowed
  /\ \A c \in Calls :
       call[c].failedAt \in {"retrieve", "llm", "index"} => call[c].outcome = "threw"

\* C8 amended: a failure of the collection lookup or creation, of an upsert,
\* of the search and of the language-model call reaches the caller as a
\* failure; a failure of the point count does not: getEmbeddingsCount
\* returns 0.
C8_AllButCountPropagate ==
  /\ ~StartupSwallowed
  /\ \A c \in Calls :
       /\ call[c].failedAt \in {"retrieve", "llm"} => call[c].outcome = "threw"
       /\ call[c].failedAt = "index" =>
            (call[c].op = "count" /\ call[c].outcome = "returned" /\ call[c].result = 0)

\* a failed point count answered 0 over a non-empty index, next to a
\* generateAnswer that threw on a failed search
C8_Witness ==
  \E c, d \in Calls :
    /\ call[c].op = "count" /\ call[c].failedAt = "index" /\ call[c].result = 0
    /\ Cardinality(DOMAIN points) > 0
    /\ call[d].op = "answer" /\ call[d].failedAt = "retrieve" /\ call[d].outcome = "threw"

\* the smallest number of chunks of at most b that hold n articles
CeilDiv(n, b) == IF n % b = 0 THEN n \div b ELSE (n \div b) + 1

EmbedCalls == SelectSeq(ingLog, LAMBDA e : e.ev = "embed")

UpsertCalls == SelectSeq(ingLog, LAMBDA e : e.ev = "upsert")

RECURSIVE UpsertedIds(_)
\* the ids of the points of the upserts u, in the order sent
UpsertedIds(u) == IF u = <<>> THEN <<>> ELSE u[1].ids \o UpsertedIds(Tail(u))

\* C9: the embedding calls of a run are made for the chunks 0, 1, 2, ... in
\* order, each for the next BATCH_SIZE articles or the fewer that are left;
\* the ids of the points sent are 0, 1, 2, ... in order, none twice; and a
\* run that completes over N articles has made ceil(N / BATCH_SIZE)
\* embedding calls and stored exactly the points 0..N-1 (none for N = 0).
C9_BatchesAndIds ==
  /\ \A j \in 1..Len(EmbedCalls) :
       /\ EmbedCalls[j].chunk = j - 1
       /\ EmbedCalls[j].size >= 1
       /\ EmbedCalls[j].size = Min(BATCH_SIZE, Len(newsArticles) - (j - 1) * BATCH_SIZE)
  /\ \A j \in 1..Len(UpsertedIds(UpsertCalls)) : UpsertedIds(UpsertCalls)[j] = j - 1
  /\ ing.pc = "done" =>
       /\ Len(EmbedCalls) = CeilDiv(Len(newsArticles), BATCH_SIZE)
       /\ Len(UpsertCalls) = Len(EmbedCalls)
       /\ Len(UpsertedIds(UpsertCalls)) = Len(newsArticles)
       /\ DOMAIN points = 0..(Len(newsArticles) - 1)
       /\ ing.result = Len(newsArticles)

\* a run over more than two full chunks and a partial one has completed
C9_Witness ==
  /\ ing.pc = "done"
  /\ Len(newsArticles) > 2 * BATCH_SIZE
  /\ Len(newsArticles) % BATCH_SIZE # 0
  /\ Len(EmbedCalls) = 3

\* C10: at most one embedding call and at most one upsert are in flight,
\* never both; chunks are taken in increasing order; and when the embedding
\* call of a chunk is made, the upsert of every earlier chunk has been
\* acknowledged.
C10_StrictlySequential ==
  /\ Cardinality(inflight.embed) + Cardinality(inflight.upsert) <= 1
  /\ \A p \in 1..Len(ingLog) :
       ingLog[p].ev = "embed" =>
         \A k \in 0..(ingLog[p].chunk - 1) :
           \E a \in 1..(p - 1) : ingLog[a].ev = "ack" /\ ingLog[a].chunk = k
  /\ \A p, q \in 1..Len(ingLog) :
       (p < q /\ ingLog[p].ev = ingLog[q].ev) => ingLog[p].chunk < ingLog[q].chunk

\* the embedding call of the third chunk is in flight
C10_Witness ==
  /\ ing.pc = "embedding"
  /\ ing.i = 2
  /\ inflight.embed = {2}
  /\ inflight.upsert = {}

\* C11: a chunk whose provider call failed is sent to the index with the
\* fallback's vectors and the index does not refuse it, so that the failure
\* of the provider never stops the run; and a run that completes reports
\* the N articles and has stored the points 0..N-1.
C11_ProviderFailureDoesNotAbort ==
  /\ \A p \in 1..Len(ingLog) :
       (ingLog[p].ev = "upsert" /\ ingLog[p].providerFailed) =>
         ~\E q \in (p + 1)..Len(ingLog) :
            /\ ingLog[q].ev = "upsertFailed"
            /\ ingLog[q].chunk = ingLog[p].chunk
            /\ ingLog[q].refused
  /\ ing.pc = "done" =>
       /\ ing.result = Len(newsArticles)
       /\ DOMAIN points = 0..(Len(newsArticles) - 1)

\* C12: when the upsert of chunk i fails, nothing more is embedded or sent:
\* the failure is the last event of the run, the loop has stopped at chunk
\* i with no result, exactly the points of the chunks 0..i-1 are stored, and
\* startServer has caught the failure of createArticleEmbeddings and left
\* the process with status 1 without listening.
C12_UpsertFailureHaltsStartup ==
  \A p \in 1..Len(ingLog) :
    ingLog[p].ev = "upsertFailed" =>
      /\ p = Len(ingLog)
      /\ ing.pc = "failed"
      /\ ing.i = ingLog[p].chunk
      /\ ing.result = -1
      /\ inflight = NoInflight
      /\ DOMAIN points = 0..(ingLog[p].chunk * BATCH_SIZE - 1)
      /\ srv = "exited"
      /\ exitCode = 1
      /\ startupError = "createArticleEmbeddings"

\* the upsert of the second of three chunks has failed
C12_Witness ==
  /\ Len(newsArticles) > 2 * BATCH_SIZE
  /\ ing.pc = "failed"
  /\ ing.i = 1
  /\ DOMAIN points = 0..(BATCH_SIZE - 1)
  /\ srv = "exited"

\* the point with this id, vector and payload is the one of the article at
\* position id: its payload holds the article's fields and its vector is an
\* embedding of the article's text
PointOfArticle(id, vector, payload) ==
  /\ id \in 0..(Len(newsArticles) - 1)
  /\ payload = [articleId |-> newsArticles[id + 1].id,
                title |-> newsArticles[id + 1].title,
                description |-> newsArticles[id + 1].description,
                link |-> newsArticles[id + 1].link,
                pubDate |-> newsArticles[id + 1].pubDate,
                fullText |-> newsArticles[id + 1].fullText,
                source |-> newsArticles[id + 1].source]
  /\ vector \in getJinaEmbedding(newsArticles[id + 1].fullText)

\* C13: the embedding call of a chunk gives one vector per text, the j-th
\* an embedding of the j-th text, from the provider or from the fallback;
\* every point sent to the index and every point stored is the point of the
\* article at the position of its id; and a complete run has stored the
\* points 0..N-1.
C13_PointsMatchArticles ==
  /\ ing.pc = "embedding" =>
       LET first == ing.i * BATCH_SIZE
           size == Min(BATCH_SIZE, Len(newsArticles) - first)
           texts == [j \in 1..size |-> newsArticles[first + j].fullText]
       IN \A e \in getJinaBatchEmbeddings(texts) :
            /\ Len(e) = size
            /\ \A j \in 1..size : e[j] \in getJinaEmbedding(texts[j])
  /\ \A r \in inflight.upsert :
       \A j \in 1..Len(r.pts) : PointOfArticle(r.pts[j].id, r.pts[j].vector, r.pts[j].payload)
  /\ \A id \in DOMAIN points : PointOfArticle(id, points[id].vector, points[id].payload)
  /\ ing.pc = "done" => DOMAIN points = 0..(Len(newsArticles) - 1)

\* a run over two chunks has completed, the first embedded by the
\* provider, the second by the fallback
C13_Witness ==
  /\ ing.pc = "done"
  /\ Len(newsArticles) > BATCH_SIZE
  /\ points[1].vector = JinaEmbedding(newsArticles[2].fullText)
  /\ points[BATCH_SIZE].vector = SimpleEmbedding[newsArticles[BATCH_SIZE + 1].fullText]

\* generateAnswer call c holds the result of its retrieval
HasRetrieved(c) ==
  /\ call[c].op = "answer"
  /\ call[c].pc \in {"read", "generate", "write", "done"}
  /\ call[c].failedAt # "retrieve"

C15_RetrievalFailureEndsTheCall ==
  /\ [](\A c \in Calls :
          call[c].failedAt = "retrieve" =>
            /\ call[c].pc = "done"
            /\ call[c].outcome = "threw"
            /\ call[c].articles = <<>>
            /\ call[c].prompt = <<>>
            /\ call[c].answer = ""
            /\ call[c].result = <<>>)
  /\ [][\A c \in Calls :
          (call[c].op = "answer" /\ call[c].pc = "retrieve" /\ call'[c].failedAt = "retrieve")
            => (kv' = kv /\ generated' = generated)]_vars
  /\ [][\A c \in Calls :
          call[c].failedAt = "retrieve" => call'[c] \in {call[c], CallIdle}]_vars

\* a retrieval has failed on a session that holds a history
C15_Witness ==
  \E c \in Calls :
    /\ call[c].op = "answer"
    /\ call[c].failedAt = "retrieve"
    /\ call[c].outcome = "threw"
    /\ StoredHistory(call[c].session) # <<>>

\* generateAnswer call c has built its prompt
HasPrompt(c) ==
  /\ call[c].op = "answer"
  /\ \/ call[c].pc \in {"generate", "write"}
     \/ call[c].pc = "done" /\ call[c].failedAt \in {"none", "llm", "write"}

\* C16: the prompt of a call has no conversation block when the history the
\* call read is empty; otherwise the block is the heading followed by one
\* line for each of the last min(HISTORY_WINDOW, length) Turns of that
\* history, oldest first, "User" or "Assistant" with the Turn's content, and
\* nothing else.
C16_PromptShowsLastTurns ==
  \A c \in Calls :
    HasPrompt(c) =>
      LET h == call[c].historyRead
          block == call[c].prompt.conversationContext
          w == IF Len(h) < HISTORY_WINDOW THEN Len(h) ELSE HISTORY_WINDOW
      IN /\ (block = <<>>) <=> (h = <<>>)
         /\ h # <<>> =>
              /\ Len(block) = w + 1
              /\ block[1] = "Previous conversation:"
              /\ \A j \in 1..w :
                   block[j + 1] = <<IF h[Len(h) - w + j].role = "user" THEN "User" ELSE "Assistant",
                                    h[Len(h) - w + j].content>>
         /\ call[c].prompt.question = call[c].query

\* a call that read a history of more than HISTORY_WINDOW Turns has built
\* its prompt, and an earlier Turn differs from the first one shown
C16_Witness ==
  \E c \in Calls :
    /\ HasPrompt(c)
    /\ Len(call[c].historyRead) > HISTORY_WINDOW + 1
    /\ Len(call[c].prompt.conversationContext) = HISTORY_WINDOW + 1
    /\ call[c].historyRead[2].content # call[c].historyRead[Len(call[c].historyRead)].content

\* the sources list s has one entry per article of a, in order, with the
\* article's title, link and source
SourcesFollow(s, a) ==
  /\ Len(s) = Len(a)
  /\ \A j \in 1..Len(a) :
       /\ s[j].title = a[j].title
       /\ s[j].link = a[j].link
       /\ s[j].source = a[j].source

\* C17: when generateAnswer returns, the sources it returns and the sources
\* of the assistant Turn it stored have one entry per retrieved article, in
\* the order retrieved, at most TOP_K_RESULTS; the Turn's entries carry the
\* scores; the source blocks of the prompt are numbered 1, 2, ... in that
\* same order; and the write stores that Turn as the last of the session.
C17_SourcesFollowResults ==
  /\ [](\A c \in Calls :
          (call[c].op = "answer" /\ call[c].outcome = "returned") =>
            LET a == call[c].articles
                turn == call[c].history[Len(call[c].history)]
                blocks == call[c].prompt.context
            IN /\ Len(a) <= TOP_K_RESULTS
               /\ SourcesFollow(call[c].result.sources, a)
               /\ \A j \in 1..Len(a) : call[c].result.sources[j].pubDate = a[j].pubDate
               /\ turn.role = "assistant"
               /\ SourcesFollow(turn.sources, a)
               /\ \A j \in 1..Len(a) : turn.sources[j].score = a[j].score
               /\ Len(blocks) = Len(a)
               /\ \A j \in 1..Len(a) :
                    /\ blocks[j].n = j
                    /\ blocks[j].title = a[j].title
                    /\ blocks[j].url = a[j].link
                    /\ blocks[j].source = a[j].source)
  /\ [][\A c \in Calls :
          WriteSucceeds(c) =>
            LET stored == ParseHistory(RedisGet(kv', SessionKey(call[c].session)))
            IN /\ stored # <<>>
               /\ stored[Len(stored)].role = "assistant"
               /\ SourcesFollow(stored[Len(stored)].sources, call[c].articles)]_vars

\* a call has returned TOP_K_RESULTS sources and the session holds them
C17_Witness ==
  \E c \in Calls :
    /\ call[c].op = "answer"
    /\ call[c].outcome = "returned"
    /\ Len(call[c].result.sources) = TOP_K_RESULTS
    /\ Len(StoredHistory(call[c].session)) = 2
    /\ Len(StoredHistory(call[c].session)[2].sources) = TOP_K_RESULTS

\* the tokens of a text that are counted: its lowercased words of more than
\* MIN_WORD_LENGTH characters
CountedTokens(text) ==
  LET words == MatchWords(ToLowerCase(Characters(text)))
  IN SelectSeq(words, LAMBDA w : Len(w) > MIN_WORD_LENGTH)

\* the vector lists the counts of the (up to VOCABULARY_SIZE) most frequent
\* tokens of the text, highest first: it has one number per kept token, the
\* numbers do not increase, and for every n as many of them are at least n
\* as there are kept tokens that occur at least n times. The order of
\* tokens with equal counts does not show in the vector.
ListsTopCounts(vector, text) ==
  LET tokens == CountedTokens(text)
      distinct == {tokens[k] : k \in 1..Len(tokens)}
      kept == IF Cardinality(distinct) < VOCABULARY_SIZE
                THEN Cardinality(distinct) ELSE VOCABULARY_SIZE
      count(w) == Cardinality({k \in 1..Len(tokens) : tokens[k] = w})
      counts == vector.values
  IN /\ Len(counts) = kept
     /\ vector.zeros = EMBEDDING_SIZE - kept
     /\ \A k \in 1..kept : DOMAIN counts[k] = {"num"}
     /\ \A k \in 1..(kept - 1) : counts[k].num >= counts[k + 1].num
     /\ \A n \in 1..Len(tokens) :
          LET atLeast == Cardinality({w \in distinct : count(w) >= n})
          IN Cardinality({k \in 1..kept : counts[k].num >= n})
               = IF atLeast < kept THEN atLeast ELSE kept

\* for each text, whether its fallback vector lists the top counts
FallbackListsTopCounts ==
  [text \in Texts |-> ListsTopCounts(SimpleEmbedding[text], text)]

\* C19: every fallback vector that ingestion sends to the index or that the
\* index holds lists the counts of the up to 100 most frequent tokens of its
\* article's text (lowercased words of more than 2 characters), highest
\* first, followed by zeros.
C19_FallbackListsTopCounts ==
  /\ \A r \in inflight.upsert :
       \A j \in 1..Len(r.pts) :
         r.pts[j].vector = SimpleEmbedding[r.pts[j].payload.fullText]
           => FallbackListsTopCounts[r.pts[j].payload.fullText]
  /\ \A id \in DOMAIN points :
       points[id].vector = SimpleEmbedding[points[id].payload.fullText]
         => FallbackListsTopCounts[points[id].payload.fullText]

Truncated ==
  [text \in Texts |->
     CHOOSE t \in Texts : Characters(t) = SliceFirst(Characters(text), MAX_TEXT_LENGTH)]

\* C21: the vector of every point that ingestion sends to the index or that
\* the index holds is an embedding, by the provider or by the fallback, of
\* the first 8000 characters of the full text of the point's article.
C21_EmbedsTruncatedText ==
  /\ \A r \in inflight.upsert :
       \A j \in 1..Len(r.pts) :
         r.pts[j].vector \in getJinaEmbedding(Truncated[r.pts[j].payload.fullText])
  /\ \A id \in DOMAIN points :
       points[id].vector \in getJinaEmbedding(Truncated[points[id].payload.fullText])

\* generateAnswer call c has just written its history: the call has not
\* responded yet and the store holds what it wrote, with the full TTL
JustWrote(c) ==
  /\ call[c].op = "answer"
  /\ call[c].pc = "done"
  /\ call[c].outcome = "returned"
  /\ kv[SessionKey(call[c].session)] =
       [val |-> JSONstringify(call[c].history), ttl |-> SESSION_TTL]

\* this step is getChatHistory(s), served in slot d
ReadsHistory(d, s) ==
  /\ call[d].pc = "idle"
  /\ call'[d].op = "history"
  /\ call'[d].session = s

ClearsSession(d, s) ==
  /\ call[d].pc = "idle"
  /\ call'[d].op = "clear"
  /\ call'[d].session = s

\* a clearSession(s) has returned, in slot c, and the session is still absent
JustCleared(c, s) ==
  /\ call[c].op = "clear"
  /\ call[c].session = s
  /\ call[c].outcome = "returned"
  /\ RedisGet(kv, SessionKey(s)) = Nil

\* C23: a clearSession that returns gives true exactly when the session was
\* in the store, and leaves it absent with the other sessions untouched; on
\* an absent session it gives false and changes nothing; a clearSession
\* right after another gives false; and a getChatHistory right after a
\* clearSession returns the empty sequence.
C23_ClearIsIdempotent ==
  /\ [][\A d \in Calls, s \in Sessions :
          (ClearsSession(d, s) /\ call'[d].outcome = "returned") =>
            /\ call'[d].result = (RedisGet(kv, SessionKey(s)) # Nil)
            /\ kv' = [kv EXCEPT ![SessionKey(s)] = Absent]
            /\ RedisGet(kv, SessionKey(s)) = Nil => (call'[d].result = FALSE /\ kv' = kv)]_vars
  /\ [][\A c, d \in Calls, s \in Sessions :
          (JustCleared(c, s) /\ ClearsSession(d, s) /\ call'[d].outcome = "returned")
            => call'[d].result = FALSE]_vars
  /\ [][\A c, d \in Calls, s \in Sessions :
          (JustCleared(c, s) /\ ReadsHistory(d, s))
            => (call'[d].outcome = "returned" /\ call'[d].result = <<>> /\ kv' = kv)]_vars

\* a clearSession has removed a session and returned true, and a second one
\* right after it has returned false
C23_Witness ==
  \E c, d \in Calls :
    /\ c # d
    /\ JustCleared(c, call[c].session)
    /\ call[c].result = TRUE
    /\ JustCleared(d, call[c].session)
    /\ call[d].result = FALSE

\* the positions of startServer in the order of the code
StartupOrder ==
  <<"connectRedis", "initializeQdrant", "fetchNewsArticles", "createArticleEmbeddings",
    "listen", "listening">>

\* C24: startServer goes through connectRedis, initializeQdrant,
\* fetchNewsArticles and createArticleEmbeddings in that order, each once,
\* and only then listens; when it listens the run over all fetched articles
\* is complete, nothing is in flight and every article has its point; a
\* request is served only while the server listens; a step that fails ends
\* the process with status 1, and a process that has exited never listens.
C24_ListensAfterIngestion ==
  /\ [](/\ srv \in {"listen", "listening"} =>
             /\ exitCode = -1 /\ startupError = "none"
             /\ collection.exists
             /\ ing.pc = "done"
             /\ ing.result = Len(newsArticles)
             /\ inflight = NoInflight
             /\ DOMAIN points = 0..(Len(newsArticles) - 1)
        /\ (\E c \in Calls : call[c].pc # "idle") => srv = "listening"
        /\ (srv = "exited") <=> (exitCode = 1)
        /\ (srv = "exited") <=> (startupError # "none")
        /\ exitCode \in {-1, 1})
  /\ [][srv' # srv =>
          \E k \in 1..(Len(StartupOrder) - 1) :
            /\ srv = StartupOrder[k]
            /\ \/ srv' = StartupOrder[k + 1]
               \/ srv' = "exited" /\ StartupOrder[k + 1] # "listening"]_vars

\* the server listens after a run over more than one batch and serves a
\* request
C24_Witness ==
  /\ srv = "listening"
  /\ Len(newsArticles) > BATCH_SIZE
  /\ Cardinality(DOMAIN points) = Len(newsArticles)
  /\ \E c \in Calls : call[c].op = "answer" /\ call[c].pc = "read"

\* a chat body the route has to refuse: the message is missing, no string,
\* empty or blank, or the sessionId is missing
RefusedBody(message, sessionId) ==
  \/ message = Undefined
  \/ "str" \notin DOMAIN message
  \/ \A k \in 1..Len(Characters(message.str)) : Characters(message.str)[k] = " "
  \/ sessionId = Undefined

\* C25: a chat request whose message is missing, not a string or only white
\* space, or whose sessionId is missing, is answered 400 in the step that
\* receives it; the store, the index and the set of generated answers are
\* unchanged, and its slot does nothing more than send the response, so the
\* request never enters generateAnswer.
C25_BadChatRequestIsRejected ==
  /\ [][\A c \in Calls, message \in ChatMessages, sessionId \in ChatSessionIds :
          (/\ c = FirstFree(Calls)
           /\ call'[c].op \in {"chat", "answer"}
           /\ PostChat(c, message, sessionId, MaxTurnsRoutes)
           /\ RefusedBody(message, sessionId))
            => /\ call'[c].op = "chat"
               /\ call'[c].pc = "done"
               /\ call'[c].result = [status |-> 400]
               /\ UNCHANGED <<kv, points, generated, gh>>]_vars
  /\ [][\A c \in Calls :
          call[c].op = "chat" => call'[c] \in {call[c], CallIdle} /\ (call'[c] # call[c] => kv' = kv)]_vars
  /\ [](\A c \in Calls : call[c].op = "answer" => call[c].query = "news" /\ call[c].session \in Sessions)

\* a blank message was refused with 400 while the other slot serves a
\* generateAnswer call
C25_Witness ==
  \E c, d \in Calls :
    /\ call[c].op = "chat" /\ call[c].result = [status |-> 400]
    /\ call[d].op = "answer" /\ call[d].pc = "write"

\* the slot c acts in this step: a request arrives in it, its service
\* function takes a step, or its response is sent
Acts(c) == call'[c].pc # call[c].pc \/ call'[c].op # call[c].op

\* the session the request in slot c is about
ActsOn(c) == IF call[c].pc = "idle" THEN call'[c].session ELSE call[c].session

\* C26: a step of generateAnswer, getChatHistory or clearSession on one
\* session leaves the stored history and the time to live of every other
\* session as they were, and what it reads is the history stored under its
\* own session; besides the requests only the passing of time changes the
\* store.
C26_SessionsAreIsolated ==
  /\ [][\A b \in Sessions :
          (/\ \E c \in Calls : Acts(c)
           /\ \A c \in Calls : Acts(c) => ActsOn(c) # b)
            => kv'[SessionKey(b)] = kv[SessionKey(b)] /\ gh'[b] = gh[b]]_vars
  /\ [][(\A c \in Calls : ~Acts(c)) => kv' = RedisElapse(kv, TickSeconds)]_vars
  /\ [][\A c \in Calls :
          /\ (call[c].op = "answer" /\ call[c].pc = "read" /\ call'[c].pc = "generate")
               => call'[c].history = StoredHistory(call[c].session)
          /\ (call[c].pc = "idle" /\ call'[c].op = "history" /\ call'[c].failedAt = "none")
               => call'[c].result = StoredHistory(call'[c].session)
          /\ (call[c].pc = "idle" /\ call'[c].op = "clear" /\ call'[c].outcome = "returned")
               => call'[c].result = (RedisGet(kv, SessionKey(call'[c].session)) # Nil)]_vars

\* a generateAnswer call on one session has just stored its Turns while the
\* other session holds a different history, half of its time to live gone
C26_Witness ==
  \E c \in Calls, a, b \in Sessions :
    /\ a # b
    /\ call[c].op = "answer" /\ call[c].session = a
    /\ call[c].pc = "done" /\ call[c].outcome = "returned"
    /\ kv[SessionKey(a)].ttl = SESSION_TTL
    /\ StoredHistory(b) # <<>>
    /\ StoredHistory(b) # StoredHistory(a)
    /\ kv[SessionKey(b)].ttl = SESSION_TTL - TickSeconds

\* C27: a session that no generateAnswer call has written is absent from
\* the store; a key comes into being only in the step of a successful
\* generateAnswer write on that session; issuing a session id leaves the
\* store as it is; getChatHistory leaves the store as it is and returns the
\* empty sequence for a session that was never written.
C27_SessionExistsFromFirstWrite ==
  /\ [](\A s \in Sessions : gh[s].sinceWrite < 0 => RedisGet(kv, SessionKey(s)) = Nil)
  /\ [][\A s \in Sessions :
          (RedisGet(kv, SessionKey(s)) = Nil /\ RedisGet(kv', SessionKey(s)) # Nil)
            => \E c \in Calls : WriteSucceeds(c) /\ call[c].session = s]_vars
  /\ [][\A c \in Calls :
          (call[c].pc = "idle" /\ call'[c].op = "create")
            => /\ kv' = kv
               /\ call'[c].session \in Sessions
               /\ call'[c].result = [status |-> 201]]_vars
  /\ [][\A c \in Calls, s \in Sessions :
          ReadsHistory(c, s)
            => /\ kv' = kv
               /\ gh[s].sinceWrite < 0
                    => call'[c].outcome = "returned" /\ call'[c].result = <<>>]_vars

\* a session id was issued and its history read, empty, the session being
\* absent from the store, while the other session is stored
C27_Witness ==
  \E c, d \in Calls, s, t \in Sessions :
    /\ call[c].op = "create" /\ call[c].session = s
    /\ call[d].op = "history" /\ call[d].session = s
    /\ call[d].failedAt = "none" /\ call[d].result = <<>>
    /\ gh[s].sinceWrite < 0
    /\ RedisGet(kv, SessionKey(s)) = Nil
    /\ StoredHistory(t) # <<>>

\* C28: getArticles returns the empty collection the module starts with
\* until fetchNewsArticles has gone through every source, and from then on
\* the first MAX_ARTICLES of all the articles gathered; the collection
\* changes in that one step only; a source that failed has no article among
\* the gathered ones, and startServer never exits for a failed source.
C28_CollectionReplacedWhole ==
  /\ [](/\ srv \in {"connectRedis", "initializeQdrant", "fetchNewsArticles"}
             => getArticles = <<>>
        /\ srv = "createArticleEmbeddings"
             => /\ fetch.k = Len(Sources)
                /\ getArticles = SubSeq(fetch.allArticles, 1, Len(getArticles))
                /\ Len(getArticles) = Min(Len(fetch.allArticles), 100)
        /\ Len(getArticles) <= MAX_ARTICLES
        /\ \A j \in 1..Len(fetch.allArticles), k \in fetch.failed :
             fetch.allArticles[j].id[1] # Sources[k].name
        /\ startupError # "fetchNewsArticles"
        /\ srv = "exited" => fetch = FetchInit)
  /\ [][newsArticles' # newsArticles
          => /\ srv = "fetchNewsArticles" /\ srv' = "createArticleEmbeddings"
             /\ fetch.k = Len(Sources)]_vars
  /\ [][fetch' # fetch => srv' = "fetchNewsArticles" /\ fetch'.k = fetch.k + 1]_vars

\* fetchNewsArticles has returned: one source failed, the others gathered
\* more than MAX_ARTICLES articles, and getArticles returns MAX_ARTICLES
C28_Witness ==
  /\ srv = "createArticleEmbeddings"
  /\ fetch.failed # {}
  /\ Len(fetch.allArticles) > MAX_ARTICLES
  /\ Len(getArticles) = MAX_ARTICLES
  /\ getArticles[MAX_ARTICLES].source # "RSS Feed"

\* the Turns u, a are the two Turns of one generateAnswer call: a question,
\* then an answer the model generated for it, with the sources of a
\* retrieval for it
PairOfOneCall(u, a) ==
  /\ u.role = "user"
  /\ a.role = "assistant"
  /\ <<u.content, a.content>> \in generated
  /\ \E qvec \in getJinaEmbedding(u.content) :
        a.sources = TurnSources(MapResults(Search(points, qvec, TOP_K_RESULTS)))

\* the history is made of whole pairs
WholePairs(h) ==
  /\ Len(h) % 2 = 0
  /\ Alternates(h)
  /\ \A j \in 1..Len(h) : j % 2 = 1 => PairOfOneCall(h[j], h[j + 1])

\* C29: with generateAnswer calls and clearSession racing on one session,
\* every stored history is a sequence of whole pairs: even length, user and
\* assistant in turn, each assistant Turn right after the user Turn of its
\* own call; a successful write stores whole pairs followed by the two
\* Turns of the writing call, and the store changes in no other way than by
\* such a write or by the deletion of the whole history.
C29_PairsStayWhole ==
  /\ [](\A s \in Sessions : WholePairs(StoredHistory(s)))
  /\ [][\A c \in Calls :
          WriteSucceeds(c)
            => LET stored == ParseHistory(RedisGet(kv', SessionKey(call[c].session)))
               IN /\ WholePairs(call[c].historyRead)
                  /\ stored = call[c].historyRead \o OwnTurns(c)
                  /\ PairOfOneCall(stored[Len(stored) - 1], stored[Len(stored)])]_vars
  /\ [][\A s \in Sessions :
          kv'[SessionKey(s)] # kv[SessionKey(s)]
            => \/ \E c \in Calls : WriteSucceeds(c) /\ call[c].session = s
               \/ kv'[SessionKey(s)] = Absent]_vars

\* two calls with different questions raced on the session and both
\* returned: the store holds the whole pair of the later writer, and neither
\* Turn of the other call
C29_Witness ==
  \E c, d \in Calls :
    /\ c # d
    /\ call[c].op = "answer" /\ call[c].outcome = "returned"
    /\ call[d].op = "answer" /\ call[d].outcome = "returned"
    /\ call[c].session = call[d].session
    /\ call[d].overlap
    /\ call[c].query # call[d].query
    /\ StoredHistory(call[d].session) = call[d].historyRead \o OwnTurns(d)
    /\ \A j \in 1..Len(StoredHistory(call[d].session)) :
         StoredHistory(call[d].session)[j].content \notin {call[c].query, call[c].answer}

\* C30: when clearSession on the session has returned true between the
\* history read and the history write of a generateAnswer call, the write of
\* that call succeeds all the same: the session then holds the Turns the
\* call had read before the deletion followed by its own two Turns, with
\* the full SESSION_TTL, and a read of the session returns them.
C30_WriteAfterClearRestoresTurns ==
  [][\A c \in Calls :
       (WriteSucceeds(c) /\ call[c].cleared)
         => LET key == SessionKey(call[c].session)
            IN /\ kv'[key].ttl = SESSION_TTL
               /\ kv'[key].val = JSONstringify(call[c].historyRead \o OwnTurns(c))
               /\ ParseHistory(RedisGet(kv', key)) = call[c].historyRead \o OwnTurns(c)
               /\ SubSeq(ParseHistory(RedisGet(kv', key)), 1, Len(call[c].historyRead))
                    = call[c].historyRead]_vars

\* a call read two Turns, clearSession deleted them and returned true, and
\* the call's write has stored the two Turns again with its own two
C30_Witness ==
  \E c, d \in Calls :
    /\ call[d].op = "clear" /\ call[d].outcome = "returned" /\ call[d].result = TRUE
    /\ call[c].op = "answer" /\ call[c].outcome = "returned"
    /\ call[c].session = call[d].session
    /\ call[c].cleared
    /\ Len(call[c].historyRead) = 2
    /\ call[c].ttlBefore = Absent.ttl
    /\ StoredHistory(call[c].session) = call[c].historyRead \o OwnTurns(c)
    /\ kv[SessionKey(call[c].session)].ttl = SESSION_TTL

\* C31: a run of createArticleEmbeddings over N articles adds or changes
\* only points with ids 0..N-1 and removes none: every point with id N or
\* more that an earlier run over more articles has left is still there,
\* unchanged, in every state, so after the run the index holds as many
\* points as the larger of the two runs.
C31_RunLeavesHigherIds ==
  /\ [][/\ \A id \in DOMAIN points :
             /\ id \in DOMAIN points'
             /\ points'[id] # points[id] => id < Len(newsArticles)
        /\ \A id \in DOMAIN points' : id \notin DOMAIN points => id < Len(newsArticles)]_vars
  /\ [](\A id \in DOMAIN StalePoints :
          id >= Len(newsArticles) => id \in DOMAIN points /\ points[id] = StalePoints[id])
  /\ [](srv \in {"listen", "listening"}
          => /\ Len(newsArticles) < MaxArticles
             /\ Cardinality(DOMAIN points) = MaxArticles
             /\ \A id \in 0..(Len(newsArticles) - 1) :
                  points[id].payload.articleId = newsArticles[id + 1].id)

\* after a run over fewer articles the index holds more points than there
\* are articles, and a retrieval has returned an article of the earlier run
\* only
C31_Witness ==
  /\ srv = "listening"
  /\ Len(newsArticles) > 0
  /\ Cardinality(DOMAIN points) > Len(newsArticles)
  /\ \E c \in Calls :
       /\ call[c].op = "answer" /\ call[c].pc = "read"
       /\ \E j \in 1..Len(call[c].articles) :
            /\ call[c].articles[j].id[1] = "earlier"
            /\ \A k \in 1..Len(newsArticles) : newsArticles[k].id # call[c].articles[j].id

\* the step in which a signal handler ends the process, the connection
\* being open
ShutsDown ==
  /\ exitCode = -1
  /\ exitCode' # -1
  /\ startupError' = startupError
  /\ redis.status = "ready"

\* C32: a signal handler calls redisClient.quit() and the process ends with
\* status 0 once the connection is closed; it ends with status 1 only when
\* the call to close the connection was made and failed.
C32_ShutdownClosesRedis ==
  [][ShutsDown
       => /\ redis'.quit \in {"resolved", "rejected"}
          /\ redis'.quit = "resolved" => exitCode' = 0 /\ redis'.status = "closed"
          /\ exitCode' = 1 => redis'.quit = "rejected"]_vars

\* retry counts the strategy is asked about beyond those a client reaches
MaxRetries == 20

\* C33: reconnectStrategy answers every retry count r from 0 to 10 with the
\* delay r * 100 ms and every greater one with an Error; a client that has
\* lost its connection makes its next attempt after that delay, gives up
\* for good on the Error, and so makes at most 12 attempts in a row.
C33_ReconnectIsBounded ==
  /\ [](\A r \in 0..MaxRetries :
          reconnectStrategy(r) = IF r <= 10 THEN [delay |-> r * 100]
                                 ELSE [error |-> "Redis connection failed"])
  /\ [](redis.retries <= 11)
  /\ [][(redis.status = "reconnecting" /\ redis' # redis /\ exitCode' = -1
          /\ redis'.status # "ready")
           => IF redis.retries <= 10
                THEN /\ redis'.status = "reconnecting"
                     /\ redis'.delay = redis.retries * 100
                     /\ redis'.retries = redis.retries + 1
                ELSE redis'.status = "failed"]_vars
  /\ [][redis.status = "failed" => redis'.status = "failed"]_vars

\* the client has given up after the strategy returned its Error, the
\* process still running
C33_Witness ==
  /\ redis.status = "failed"
  /\ redis.retries = 11
  /\ redis.delay = 1000
  /\ exitCode = -1

====
